---- MODULE Spec2Model ----
(***************************************************************************)
(* The ldb tdb backend (src/ldb/ldb_tdb/ldb_tdb.c): add, modify, delete    *)
(* and rename over a key/value store holding primary records, attribute    *)
(* index records, the one-level index and @BASEINFO.                       *)
(*                                                                         *)
(* The store is a record  [rec, idx, one, seq, flt]:                       *)
(*   rec  primary records by key (the case-folded DN),                     *)
(*   idx  index records by <<attribute, canonical value>>: a DN list,      *)
(*        the empty list standing for "no record",                         *)
(*   one  the one-level index: a DN list,                                  *)
(*   seq  @BASEINFO.sequenceNumber,                                        *)
(*   flt  the faults still to be injected into the store primitives.       *)
(* Stored elements are [name, values]; the flag word of an element is a    *)
(* modify tag that no code path reads back from a stored record, and is    *)
(* left out of the stored form.                                            *)
(***************************************************************************)
EXTENDS Integers, Sequences, FiniteSets, TLC

VARIABLES tdb, snap, in_transaction, req, ret, handle, cb_calls, schema, pc

vars == <<tdb, snap, in_transaction, req, ret, handle, cb_calls, schema, pc>>

----------------------------------------------------------------------------
(* Bounds *)

MaxIn == 2         \* values in one incoming element
MaxVals == 2       \* values in one stored element
MaxEls == 2        \* elements in one stored record
MaxSeq == 4        \* cap on the sequence number
MaxFaults == 2     \* consecutive failures of one primitive inside a rename

----------------------------------------------------------------------------
(* Result codes *)

LDB_SUCCESS == "SUCCESS"
LDB_ERR_OPERATIONS_ERROR == "OPERATIONS_ERROR"
LDB_ERR_PROTOCOL_ERROR == "PROTOCOL_ERROR"
LDB_ERR_ENTRY_ALREADY_EXISTS == "ENTRY_ALREADY_EXISTS"
LDB_ERR_NO_SUCH_OBJECT == "NO_SUCH_OBJECT"
LDB_ERR_NO_SUCH_ATTRIBUTE == "NO_SUCH_ATTRIBUTE"
LDB_ERR_ATTRIBUTE_OR_VALUE_EXISTS == "ATTRIBUTE_OR_VALUE_EXISTS"
LDB_ERR_INVALID_ATTRIBUTE_SYNTAX == "INVALID_ATTRIBUTE_SYNTAX"
LDB_ERR_UNSUPPORTED_CRITICAL_EXTENSION == "UNSUPPORTED_CRITICAL_EXTENSION"
LDB_ERR_OTHER == "OTHER"

\* ltdb_err_map on the tdb error codes the model's store raises
ltdb_err_map(tdb_code) ==
  CASE tdb_code = "TDB_SUCCESS" -> LDB_SUCCESS
    [] tdb_code = "TDB_ERR_IO" -> LDB_ERR_PROTOCOL_ERROR
    [] tdb_code = "TDB_ERR_EXISTS" -> LDB_ERR_ENTRY_ALREADY_EXISTS
    [] tdb_code = "TDB_ERR_NOEXIST" -> LDB_ERR_NO_SUCH_OBJECT
    [] OTHER -> LDB_ERR_OTHER

----------------------------------------------------------------------------
(* DNs, attribute names and values *)

LTDB_BASEINFO == "@BASEINFO"
LTDB_INDEXLIST == "@INDEXLIST"
LTDB_ATTRIBUTES == "@ATTRIBUTES"

\* the DNs requests name: cn=x and cn=X differ only in case
UserDNs == {"cn=x", "cn=X", "cn=y"}
DNs == UserDNs \cup {LTDB_BASEINFO, LTDB_INDEXLIST, LTDB_ATTRIBUTES}

\* case-folded linearized DN; special DNs pass through
ldb_dn_get_casefold(dn) ==
  CASE dn \in {"cn=x", "cn=X"} -> "CN=X"
    [] dn = "cn=y" -> "CN=Y"
    [] OTHER -> dn

ldb_dn_is_special(dn) == dn \in {LTDB_BASEINFO, LTDB_INDEXLIST, LTDB_ATTRIBUTES}

ldb_dn_check_special(dn, check) == dn = check

\* 0 exactly when the two DNs are the same entry
ldb_dn_compare(dn0, dn1) ==
  IF ldb_dn_get_casefold(dn0) = ldb_dn_get_casefold(dn1) THEN 0 ELSE 1

\* the primary key "DN=" + casefold(dn): one key per folded DN
ltdb_key(dn) == ldb_dn_get_casefold(dn)

Keys == {ltdb_key(dn) : dn \in DNs}

Names == {"member", "desc"}
IndexedAttrs == {"member"}

Values == {"bob", "BOB", "carol"}

\* attribute names compare ignoring case
AttrFold(name) ==
  CASE name \in {"member", "Member"} -> "MEMBER"
    [] name \in {"desc", "Desc"} -> "DESC"
    [] name \in {"cn", "CN"} -> "CN"
    [] name = "dc" -> "DC"
    [] name = "ou" -> "OU"
    [] name = "dn" -> "DN"
    [] name = "distinguishedName" -> "DISTINGUISHEDNAME"
    [] name = "objectClass" -> "OBJECTCLASS"
    [] OTHER -> name

\* the place of a folded name in the byte order of the folded names
AttrRank(name) ==
  CASE AttrFold(name) = "*" -> 0
    [] AttrFold(name) = "CN" -> 1
    [] AttrFold(name) = "DC" -> 2
    [] AttrFold(name) = "DESC" -> 3
    [] AttrFold(name) = "DISTINGUISHEDNAME" -> 4
    [] AttrFold(name) = "DN" -> 5
    [] AttrFold(name) = "MEMBER" -> 6
    [] AttrFold(name) = "OBJECTCLASS" -> 7
    [] AttrFold(name) = "OU" -> 8
    [] OTHER -> 9

\* zero for names equal ignoring case, else the sign of the byte order
ldb_attr_cmp(a, b) ==
  IF AttrFold(a) = AttrFold(b) THEN 0
  ELSE IF AttrRank(a) < AttrRank(b) THEN -1 ELSE 1

\* the syntax of an attribute: member is a directory string (case-insensitive),
\* every other attribute has the default syntax (octet string)
SyntaxOf(name) ==
  IF AttrFold(name) = "MEMBER" THEN "directory-string" ELSE "octet-string"

\* canonicalise_fn of the syntax
Canon(name, v) ==
  IF SyntaxOf(name) = "directory-string"
    THEN (CASE v \in {"bob", "BOB"} -> "BOB"
            [] v = "carol" -> "CAROL"
            [] OTHER -> v)
    ELSE v

\* comparison_fn of the syntax: 0 for equal
comparison_fn(name, v1, v2) == IF Canon(name, v1) = Canon(name, v2) THEN 0 ELSE 1

IdxKeys == {<<AttrFold(a), Canon(a, v)>> : a \in IndexedAttrs, v \in Values}

ltdb_index_key(name, v) == <<AttrFold(name), Canon(name, v)>>

ltdb_is_indexed(name) == \E a \in IndexedAttrs : ldb_attr_cmp(a, name) = 0

----------------------------------------------------------------------------
(* Sequences *)

RECURSIVE SeqsUpTo(_, _)
SeqsUpTo(S, n) ==
  IF n = 0 THEN {<<>>}
  ELSE LET r == SeqsUpTo(S, n - 1)
       IN r \cup {Append(s, x) : s \in {t \in r : Len(t) = n - 1}, x \in S}

RemoveAt(s, i) == SubSeq(s, 1, i - 1) \o SubSeq(s, i + 1, Len(s))

----------------------------------------------------------------------------
(* The key/value store and its fault injection *)

Absent == [present |-> FALSE, els |-> <<>>]

NoFault == [kind |-> "none", n |-> 0]

\* the schema registry of a handle before any attribute is registered: no
\* array, no entries
NoSchema == [attributes |-> <<>>, num_attributes |-> 0]

\* the next call of primitive k fails
Fails(s, k) == s.flt.kind = k /\ s.flt.n > 0

Consume(s) == [s EXCEPT !.flt.n = @ - 1]

R(s, r) == [s |-> s, ret |-> r]

TDB_INSERT == "TDB_INSERT"
TDB_MODIFY == "TDB_MODIFY"

\* tdb_store: -1 with tdb_error set, or 0; ret carries the tdb error code
tdb_store(s, key, els, flgs) ==
  IF Fails(s, "tdb_store") THEN R(Consume(s), "TDB_ERR_IO")
  ELSE IF flgs = TDB_INSERT /\ s.rec[key].present THEN R(s, "TDB_ERR_EXISTS")
  ELSE IF flgs = TDB_MODIFY /\ ~s.rec[key].present THEN R(s, "TDB_ERR_NOEXIST")
  ELSE R([s EXCEPT !.rec[key] = [present |-> TRUE, els |-> els]], "TDB_SUCCESS")

tdb_delete(s, key) ==
  IF Fails(s, "tdb_delete") THEN R(Consume(s), "TDB_ERR_IO")
  ELSE IF ~s.rec[key].present THEN R(s, "TDB_ERR_NOEXIST")
  ELSE R([s EXCEPT !.rec[key] = Absent], "TDB_SUCCESS")

\* the packed form of a message: its elements, those without values left out
ltdb_pack_data(els) == SelectSeq(els, LAMBDA e : e.values # <<>>)

\* the message unpacked from a stored record; the caller fills in the DN
ltdb_unpack_data(data) == data.els

----------------------------------------------------------------------------
(* The index manager *)

SameDN(a, b) == ldb_dn_compare(a, b) = 0

InList(list, dn) == \E i \in 1..Len(list) : SameDN(list[i], dn)

ListAdd(list, dn) == IF InList(list, dn) THEN list ELSE Append(list, dn)

ListDel(list, dn) == SelectSeq(list, LAMBDA d : ~SameDN(d, dn))

\* the <<name, value>> pairs of a message, in order
RECURSIVE Pairs(_)
Pairs(els) ==
  IF els = <<>> THEN <<>>
  ELSE [j \in 1..Len(Head(els).values) |-> <<Head(els).name, Head(els).values[j]>>]
       \o Pairs(Tail(els))

IndexedPairs(els) == SelectSeq(Pairs(els), LAMBDA p : ltdb_is_indexed(p[1]))

RECURSIVE IdxApply(_, _, _, _)
IdxApply(idx, ps, dn, add) ==
  IF ps = <<>> THEN idx
  ELSE LET k == ltdb_index_key(Head(ps)[1], Head(ps)[2])
       IN IdxApply([idx EXCEPT ![k] = IF add THEN ListAdd(@, dn) ELSE ListDel(@, dn)],
                   Tail(ps), dn, add)

\* index_add(entry): the DN joins the list of every indexed (attr, value) of it
ltdb_index_add(s, dn, els) ==
  IF Fails(s, "index_add") THEN R(Consume(s), LDB_ERR_OPERATIONS_ERROR)
  ELSE R([s EXCEPT !.idx = IdxApply(@, IndexedPairs(els), dn, TRUE)], LDB_SUCCESS)

\* index_del(entry): the inverse
ltdb_index_del(s, dn, els) ==
  IF Fails(s, "index_del") THEN R(Consume(s), LDB_ERR_OPERATIONS_ERROR)
  ELSE R([s EXCEPT !.idx = IdxApply(@, IndexedPairs(els), dn, FALSE)], LDB_SUCCESS)

\* index_del_value(dn, element, j): the DN leaves the list of one (attr, value)
ltdb_index_del_value(s, dn, el, j) ==
  IF Fails(s, "index_del_value") THEN R(Consume(s), LDB_ERR_OPERATIONS_ERROR)
  ELSE IF ~ltdb_is_indexed(el.name) THEN R(s, LDB_SUCCESS)
  ELSE R([s EXCEPT !.idx[ltdb_index_key(el.name, el.values[j])] = ListDel(@, dn)],
         LDB_SUCCESS)

\* index_one(entry, add): the one-level index gains or loses the DN
ltdb_index_one(s, dn, add) ==
  IF Fails(s, "index_one") THEN R(Consume(s), LDB_ERR_OPERATIONS_ERROR)
  ELSE R([s EXCEPT !.one = IF add = 1 THEN ListAdd(@, dn) ELSE ListDel(@, dn)],
         LDB_SUCCESS)

\* the index of a set of records built from scratch
RECURSIVE IdxOfKeys(_, _, _)
IdxOfKeys(rec, ks, idx) ==
  IF ks = {} THEN idx
  ELSE LET k == CHOOSE x \in ks : TRUE
       IN IdxOfKeys(rec, ks \ {k},
                    IdxApply(idx, IndexedPairs(rec[k].els), k, TRUE))

\* full reindex: every index record is rebuilt from the non-special records
ltdb_reindex(s) ==
  IF Fails(s, "reindex") THEN R(Consume(s), LDB_ERR_OPERATIONS_ERROR)
  ELSE R([s EXCEPT !.idx =
            IdxOfKeys(s.rec, {k \in Keys : s.rec[k].present /\ ~ldb_dn_is_special(k)},
                      [k \in IdxKeys |-> <<>>])], LDB_SUCCESS)

\* @BASEINFO.sequenceNumber is incremented by one
ltdb_increase_sequence_number(s) ==
  IF Fails(s, "seq") THEN R(Consume(s), LDB_ERR_OPERATIONS_ERROR)
  ELSE R([s EXCEPT !.seq = @ + 1], LDB_SUCCESS)

\* 0, or -1 when the meta records cannot be loaded
ltdb_cache_load(s) ==
  IF Fails(s, "cache_load") THEN R(Consume(s), -1) ELSE R(s, 0)

\* the record of dn as a message whose DN is the one asked for
ltdb_search_dn1(s, dn) ==
  IF ~s.rec[ltdb_key(dn)].present
    THEN [ret |-> LDB_ERR_NO_SUCH_OBJECT, msg |-> [dn |-> dn, els |-> <<>>]]
    ELSE [ret |-> LDB_SUCCESS,
          msg |-> [dn |-> dn, els |-> ltdb_unpack_data(s.rec[ltdb_key(dn)])]]

----------------------------------------------------------------------------
(* The mutation engine: internal operations.  Each takes the store s and    *)
(* returns [s, ret]: the store it leaves and the code it returns.           *)

\* the attribute-flags grammar of @ATTRIBUTES values
ltdb_check_at_attributes_values(v) ==
  IF v \in {"CASE_INSENSITIVE", "INTEGER", "HIDDEN", "NONE"} THEN 0 ELSE -1

\* ltdb_check_special_dn checking the values of every special DN
ltdb_check_special_dn_AnySpecial(msg) ==
  IF ~ldb_dn_is_special(msg.dn) THEN LDB_SUCCESS
  ELSE IF \E i \in 1..Len(msg.els) : \E j \in 1..Len(msg.els[i].values) :
            ltdb_check_at_attributes_values(msg.els[i].values[j]) # 0
    THEN LDB_ERR_INVALID_ATTRIBUTE_SYNTAX
  ELSE LDB_SUCCESS

ltdb_check_special_dn(msg) ==
  IF ~ldb_dn_is_special(msg.dn) \/ ~ldb_dn_check_special(msg.dn, LTDB_ATTRIBUTES)
    THEN LDB_SUCCESS
  ELSE IF \E i \in 1..Len(msg.els) : \E j \in 1..Len(msg.els[i].values) :
            ltdb_check_at_attributes_values(msg.els[i].values[j]) # 0
    THEN LDB_ERR_INVALID_ATTRIBUTE_SYNTAX
  ELSE LDB_SUCCESS

\* ltdb_modified without the test that exempts @BASEINFO from the bump
ltdb_modified_BumpAlways(s, dn) ==
  LET Reindexed(r1) == IF r1.ret = LDB_SUCCESS
                         THEN ltdb_increase_sequence_number(r1.s)
                         ELSE r1
  IN Reindexed(IF ldb_dn_is_special(dn)
                    /\ (ldb_dn_check_special(dn, LTDB_INDEXLIST)
                        \/ ldb_dn_check_special(dn, LTDB_ATTRIBUTES))
                 THEN ltdb_reindex(s)
                 ELSE R(s, LDB_SUCCESS))

\* ltdb_modified bumping the sequence number before it reindexes
ltdb_modified_BumpFirst(s, dn) ==
  LET Bumped(r1) ==
        IF r1.ret = LDB_SUCCESS
           /\ ldb_dn_is_special(dn)
           /\ (ldb_dn_check_special(dn, LTDB_INDEXLIST)
               \/ ldb_dn_check_special(dn, LTDB_ATTRIBUTES))
          THEN ltdb_reindex(r1.s)
          ELSE r1
  IN Bumped(IF ~(ldb_dn_is_special(dn) /\ ldb_dn_check_special(dn, LTDB_BASEINFO))
              THEN ltdb_increase_sequence_number(s)
              ELSE R(s, LDB_SUCCESS))

\* the modification hook: possibly reindex, then bump the sequence number
ltdb_modified(s, dn) ==
  LET Reindexed(r1) ==
        IF r1.ret = LDB_SUCCESS
           /\ ~(ldb_dn_is_special(dn) /\ ldb_dn_check_special(dn, LTDB_BASEINFO))
          THEN ltdb_increase_sequence_number(r1.s)
          ELSE r1
  IN Reindexed(IF ldb_dn_is_special(dn)
                    /\ (ldb_dn_check_special(dn, LTDB_INDEXLIST)
                        \/ ldb_dn_check_special(dn, LTDB_ATTRIBUTES))
                 THEN ltdb_reindex(s)
                 ELSE R(s, LDB_SUCCESS))

\* ltdb_store without the index_add that follows the write
ltdb_store_NoIndexAdd(s, msg, flgs) ==
  LET Stored(st) == R(st.s, ltdb_err_map(st.ret))
  IN Stored(tdb_store(s, ltdb_key(msg.dn), ltdb_pack_data(msg.els), flgs))

\* store a record: the packed message under the key of msg.dn, then index_add;
\* when index_add fails the record is deleted again
ltdb_store(s, msg, flgs) ==
  LET tdb_key == ltdb_key(msg.dn)
      Indexed(ia) == IF ia.ret # LDB_SUCCESS
                       THEN R(tdb_delete(ia.s, tdb_key).s, ia.ret)
                       ELSE ia
      Stored(st) == IF st.ret # "TDB_SUCCESS" THEN R(st.s, ltdb_err_map(st.ret))
                    ELSE Indexed(ltdb_index_add(st.s, msg.dn, msg.els))
  IN Stored(tdb_store(s, tdb_key, ltdb_pack_data(msg.els), flgs))

\* ltdb_add_internal storing without the insert flag
ltdb_add_internal_Overwrite(s, msg) ==
  LET Listed(io) == IF io.ret # LDB_SUCCESS THEN io ELSE ltdb_modified(io.s, msg.dn)
      Stored(st) == IF st.ret = LDB_ERR_ENTRY_ALREADY_EXISTS THEN st
                    ELSE IF st.ret = LDB_SUCCESS
                      THEN Listed(ltdb_index_one(st.s, msg.dn, 1))
                    ELSE st
      Loaded(cl) == IF cl.ret # 0 THEN R(cl.s, LDB_ERR_OPERATIONS_ERROR)
                    ELSE Stored(ltdb_store(cl.s, msg, "TDB_REPLACE"))
      Checked(chk) == IF chk # LDB_SUCCESS THEN R(s, chk)
                      ELSE Loaded(ltdb_cache_load(s))
  IN Checked(ltdb_check_special_dn(msg))

ltdb_add_internal(s, msg) ==
  LET Listed(io) == IF io.ret # LDB_SUCCESS THEN io ELSE ltdb_modified(io.s, msg.dn)
      Stored(st) == IF st.ret = LDB_ERR_ENTRY_ALREADY_EXISTS THEN st
                    ELSE IF st.ret = LDB_SUCCESS
                      THEN Listed(ltdb_index_one(st.s, msg.dn, 1))
                    ELSE st
      Loaded(cl) == IF cl.ret # 0 THEN R(cl.s, LDB_ERR_OPERATIONS_ERROR)
                    ELSE Stored(ltdb_store(cl.s, msg, TDB_INSERT))
      Checked(chk) == IF chk # LDB_SUCCESS THEN R(s, chk)
                      ELSE Loaded(ltdb_cache_load(s))
  IN Checked(ltdb_check_special_dn(msg))

\* delete a record, not updating indexes
ltdb_delete_noindex(s, dn) ==
  LET Deleted(d) == R(d.s, ltdb_err_map(d.ret))
  IN Deleted(tdb_delete(s, ltdb_key(dn)))

\* ltdb_delete_internal removing the attribute index entries before the
\* one-level index entry
ltdb_delete_internal_IndexFirst(s, dn) ==
  LET Unlisted(io) == IF io.ret # LDB_SUCCESS THEN io ELSE ltdb_modified(io.s, dn)
      Unindexed(sr, id) == IF id.ret # LDB_SUCCESS THEN id
                           ELSE Unlisted(ltdb_index_one(id.s, sr.msg.dn, 0))
      Deleted(sr, d) == IF d.ret # LDB_SUCCESS THEN d
                        ELSE Unindexed(sr, ltdb_index_del(d.s, sr.msg.dn, sr.msg.els))
      Found(sr) == IF sr.ret # LDB_SUCCESS THEN R(s, sr.ret)
                   ELSE Deleted(sr, ltdb_delete_noindex(s, dn))
  IN Found(ltdb_search_dn1(s, dn))

ltdb_delete_internal(s, dn) ==
  LET Unindexed(id) == IF id.ret # LDB_SUCCESS THEN id ELSE ltdb_modified(id.s, dn)
      Unlisted(sr, io) == IF io.ret # LDB_SUCCESS THEN io
                          ELSE Unindexed(ltdb_index_del(io.s, sr.msg.dn, sr.msg.els))
      Deleted(sr, d) == IF d.ret # LDB_SUCCESS THEN d
                        ELSE Unlisted(sr, ltdb_index_one(d.s, sr.msg.dn, 0))
      Found(sr) == IF sr.ret # LDB_SUCCESS THEN R(s, sr.ret)
                   ELSE Deleted(sr, ltdb_delete_noindex(s, dn))
  IN Found(ltdb_search_dn1(s, dn))

----------------------------------------------------------------------------
(* Modify.  The message being rebuilt (msg2) is the element sequence els.   *)

\* the index of the first element named name, 0 when there is none (C: -1)
find_element(els, name) ==
  IF \E i \in 1..Len(els) : ldb_attr_cmp(els[i].name, name) = 0
    THEN CHOOSE i \in 1..Len(els) :
           /\ ldb_attr_cmp(els[i].name, name) = 0
           /\ \A k \in 1..(i - 1) : ldb_attr_cmp(els[k].name, name) # 0
    ELSE 0

\* the index of the first value of el equal to val, 0 when there is none (C: NULL)
ldb_msg_find_val(el, val) ==
  IF \E i \in 1..Len(el.values) : comparison_fn(el.name, el.values[i], val) = 0
    THEN CHOOSE i \in 1..Len(el.values) :
           /\ comparison_fn(el.name, el.values[i], val) = 0
           /\ \A k \in 1..(i - 1) : comparison_fn(el.name, el.values[k], val) # 0
    ELSE 0

\* append a copy of el (its name and values) to the message
msg_add_element(els, el) == Append(els, [name |-> el.name, values |-> el.values])

\* index_del_value for the values j..n of el; the return values are ignored
RECURSIVE DelValuesFrom(_, _, _, _)
DelValuesFrom(s, dn, el, j) ==
  IF j > Len(el.values) THEN s
  ELSE DelValuesFrom(ltdb_index_del_value(s, dn, el, j).s, dn, el, j + 1)

\* msg_delete_attribute stopping after the first element of that name
msg_delete_attribute_FirstOnly(s, dn, els, name) ==
  LET found == find_element(els, name)
  IN IF found = 0 THEN [s |-> s, els |-> els, ret |-> 0]
     ELSE [s |-> DelValuesFrom(s, dn, els[found], 1),
           els |-> RemoveAt(els, found), ret |-> 0]

\* delete all elements having a specified attribute name: [s, els, ret]
RECURSIVE msg_delete_attribute(_, _, _, _)
msg_delete_attribute(s, dn, els, name) ==
  IF els = <<>> THEN [s |-> s, els |-> <<>>, ret |-> 0]
  ELSE IF ldb_attr_cmp(Head(els).name, name) = 0
    THEN msg_delete_attribute(DelValuesFrom(s, dn, Head(els), 1), dn, Tail(els), name)
    ELSE LET rest == msg_delete_attribute(s, dn, Tail(els), name)
         IN [rest EXCEPT !.els = <<Head(els)>> \o @]

\* delete the first value of the first element named name that equals val under
\* the attribute's comparison; the attribute goes when its last value does
msg_delete_element(s, dn, els, name, val) ==
  LET found == find_element(els, name)
      el == els[found]
      hit == {i \in 1..Len(el.values) : comparison_fn(el.name, el.values[i], val) = 0}
      i == CHOOSE x \in hit : \A y \in hit : x <= y
      els2 == [els EXCEPT ![found].values = RemoveAt(@, i)]
  IN IF found = 0 THEN [s |-> s, els |-> els, ret |-> -1]
     ELSE IF hit = {} THEN [s |-> s, els |-> els, ret |-> -1]
     ELSE IF els2[found].values = <<>> THEN msg_delete_attribute(s, dn, els2, name)
     ELSE [s |-> s, els |-> els2, ret |-> 0]

LDB_FLAG_MOD_ADD == "ADD"
LDB_FLAG_MOD_REPLACE == "REPLACE"
LDB_FLAG_MOD_DELETE == "DELETE"

M(s, els, r) == [s |-> s, els |-> els, ret |-> r]

\* a value of el that is listed more than once
ProvidedTwice(el) ==
  \E j \in 1..Len(el.values) : ldb_msg_find_val(el, el.values[j]) # j

\* the ADD case without the test for a value provided more than once
ModAdd_NoProvidedTwice(s, dn, els, el) ==
  LET idx == find_element(els, el.name)
      el2 == els[idx]
  IN IF idx = 0 THEN M(s, msg_add_element(els, el), LDB_SUCCESS)
     ELSE IF \E j \in 1..Len(el.values) : ldb_msg_find_val(el2, el.values[j]) # 0
       THEN M(s, els, LDB_ERR_ATTRIBUTE_OR_VALUE_EXISTS)
     ELSE M(s, [els EXCEPT ![idx].values = @ \o el.values], LDB_SUCCESS)

ModAdd(s, dn, els, el) ==
  LET idx == find_element(els, el.name)
      el2 == els[idx]
  IN IF idx = 0 THEN M(s, msg_add_element(els, el), LDB_SUCCESS)
     ELSE IF \E j \in 1..Len(el.values) :
               \/ ldb_msg_find_val(el2, el.values[j]) # 0
               \/ ldb_msg_find_val(el, el.values[j]) # j
       THEN M(s, els, LDB_ERR_ATTRIBUTE_OR_VALUE_EXISTS)
     ELSE M(s, [els EXCEPT ![idx].values = @ \o el.values], LDB_SUCCESS)

ModReplace(s, dn, els, el) ==
  LET Deleted(da) ==
        IF ProvidedTwice(el) THEN M(da.s, da.els, LDB_ERR_ATTRIBUTE_OR_VALUE_EXISTS)
        ELSE IF el.values # <<>> THEN M(da.s, msg_add_element(da.els, el), LDB_SUCCESS)
        ELSE M(da.s, da.els, LDB_SUCCESS)
  IN Deleted(msg_delete_attribute(s, dn, els, el.name))

\* delete the listed values j.. of el one by one
RECURSIVE DeleteValues(_, _, _, _, _)
DeleteValues(s, dn, els, el, j) ==
  LET Unindexed(de, iv) ==
        IF iv.ret # LDB_SUCCESS THEN M(iv.s, de.els, iv.ret)
        ELSE DeleteValues(iv.s, dn, de.els, el, j + 1)
      Deleted(de) ==
        IF de.ret # 0 THEN M(de.s, de.els, LDB_ERR_NO_SUCH_ATTRIBUTE)
        ELSE Unindexed(de, ltdb_index_del_value(de.s, dn, el, j))
  IN IF j > Len(el.values) THEN M(s, els, LDB_SUCCESS)
     ELSE Deleted(msg_delete_element(s, dn, els, el.name, el.values[j]))

ModDelete(s, dn, els, el) ==
  LET Deleted(da) == IF da.ret # 0 THEN M(da.s, da.els, LDB_ERR_NO_SUCH_ATTRIBUTE)
                     ELSE M(da.s, da.els, LDB_SUCCESS)
  IN IF el.values = <<>> THEN Deleted(msg_delete_attribute(s, dn, els, el.name))
     ELSE DeleteValues(s, dn, els, el, 1)

\* one element of the modify message applied to msg2
ApplyMod(s, dn, els, el) ==
  CASE el.flags = LDB_FLAG_MOD_ADD -> ModAdd(s, dn, els, el)
    [] el.flags = LDB_FLAG_MOD_REPLACE -> ModReplace(s, dn, els, el)
    [] el.flags = LDB_FLAG_MOD_DELETE -> ModDelete(s, dn, els, el)
    [] OTHER -> M(s, els, LDB_ERR_PROTOCOL_ERROR)

\* the elements i.. of the modify message applied in order, stopping at a failure
RECURSIVE ApplyMods(_, _, _, _, _)
ApplyMods(s, dn, els, mods, i) ==
  LET Applied(m) == IF m.ret # LDB_SUCCESS THEN m
                    ELSE ApplyMods(m.s, dn, m.els, mods, i + 1)
  IN IF i > Len(mods) THEN M(s, els, LDB_SUCCESS)
     ELSE Applied(ApplyMod(s, dn, els, mods[i]))

\* ltdb_modify_internal saving the half-rebuilt record before it reports a failure
ltdb_modify_internal_SaveOnFailure(s, msg) ==
  LET tdb_key == ltdb_key(msg.dn)
      Stored(m, st) == IF m.ret # LDB_SUCCESS THEN R(st.s, m.ret)
                       ELSE IF st.ret # LDB_SUCCESS THEN st
                       ELSE ltdb_modified(st.s, msg.dn)
      Rebuilt(m) == Stored(m, ltdb_store(m.s, [dn |-> msg.dn, els |-> m.els], TDB_MODIFY))
  IN IF ~s.rec[tdb_key].present THEN R(s, ltdb_err_map("TDB_ERR_NOEXIST"))
     ELSE Rebuilt(ApplyMods(s, msg.dn, ltdb_unpack_data(s.rec[tdb_key]), msg.els, 1))

ltdb_modify_internal(s, msg) ==
  LET tdb_key == ltdb_key(msg.dn)
      Stored(st) == IF st.ret # LDB_SUCCESS THEN st ELSE ltdb_modified(st.s, msg.dn)
      Rebuilt(m) ==
        IF m.ret # LDB_SUCCESS THEN R(m.s, m.ret)
        ELSE Stored(ltdb_store(m.s, [dn |-> msg.dn, els |-> m.els], TDB_MODIFY))
  IN IF ~s.rec[tdb_key].present THEN R(s, ltdb_err_map("TDB_ERR_NOEXIST"))
     ELSE Rebuilt(ApplyMods(s, msg.dn, ltdb_unpack_data(s.rec[tdb_key]), msg.els, 1))

----------------------------------------------------------------------------
(* The request handlers.  Each returns [s, ret, handle, cb]: the store, the *)
(* value returned to the caller, req->handle and the number of callback     *)
(* invocations.                                                             *)

LDB_ASYNC_INIT == "INIT"
LDB_ASYNC_DONE == "DONE"

NoHandle == [state |-> "NULL", status |-> "NULL"]

\* a fresh handle, or NULL when the allocation fails
init_ltdb_handle(s) ==
  IF Fails(s, "handle") THEN [s |-> Consume(s), h |-> NoHandle]
  ELSE [s |-> s, h |-> [state |-> LDB_ASYNC_INIT, status |-> LDB_SUCCESS]]

\* a critical control the backend does not handle is present
check_critical_controls(r) == r.critical

H(s, r, h, cb) == [s |-> s, ret |-> r, handle |-> h, cb |-> cb]

\* the value the completion callback returns
CallbackRet(r) == LDB_SUCCESS

\* the tail of the handlers leaving the handle as it is when the mutation failed
Finish_NoDoneOnFailure(r, h, res) ==
  IF res.ret # LDB_SUCCESS
    THEN H(res.s, LDB_SUCCESS, [h EXCEPT !.status = res.ret], 0)
  ELSE IF r.callback
    THEN H(res.s, CallbackRet(r), [h EXCEPT !.state = LDB_ASYNC_DONE], 1)
  ELSE H(res.s, LDB_SUCCESS, [h EXCEPT !.state = LDB_ASYNC_DONE], 0)

\* the tail shared by the handlers: status on failure, callback on success, DONE
Finish(r, h, res) ==
  IF res.ret # LDB_SUCCESS
    THEN H(res.s, LDB_SUCCESS, [state |-> LDB_ASYNC_DONE, status |-> res.ret], 0)
  ELSE IF r.callback
    THEN H(res.s, CallbackRet(r), [h EXCEPT !.state = LDB_ASYNC_DONE], 1)
  ELSE H(res.s, LDB_SUCCESS, [h EXCEPT !.state = LDB_ASYNC_DONE], 0)

ltdb_add(s, r) ==
  LET ih == init_ltdb_handle(s)
  IN IF check_critical_controls(r)
       THEN H(s, LDB_ERR_UNSUPPORTED_CRITICAL_EXTENSION, NoHandle, 0)
     ELSE IF ih.h = NoHandle THEN H(ih.s, LDB_ERR_OPERATIONS_ERROR, NoHandle, 0)
     ELSE Finish(r, ih.h, ltdb_add_internal(ih.s, [dn |-> r.dn, els |-> r.els]))

ltdb_delete(s, r) ==
  LET cl == ltdb_cache_load(s)
      ih == init_ltdb_handle(cl.s)
  IN IF check_critical_controls(r)
       THEN H(s, LDB_ERR_UNSUPPORTED_CRITICAL_EXTENSION, NoHandle, 0)
     ELSE IF cl.ret # 0 THEN H(cl.s, LDB_ERR_OPERATIONS_ERROR, NoHandle, 0)
     ELSE IF ih.h = NoHandle THEN H(ih.s, LDB_ERR_OPERATIONS_ERROR, NoHandle, 0)
     ELSE Finish(r, ih.h, ltdb_delete_internal(ih.s, r.dn))

ltdb_modify(s, r) ==
  LET ih == init_ltdb_handle(s)
      msg == [dn |-> r.dn, els |-> r.els]
      chk == ltdb_check_special_dn(msg)
      cl == ltdb_cache_load(ih.s)
  IN IF check_critical_controls(r)
       THEN H(s, LDB_ERR_UNSUPPORTED_CRITICAL_EXTENSION, NoHandle, 0)
     ELSE IF ih.h = NoHandle THEN H(ih.s, LDB_ERR_OPERATIONS_ERROR, NoHandle, 0)
     ELSE IF chk # LDB_SUCCESS
       THEN H(ih.s, LDB_SUCCESS, [state |-> LDB_ASYNC_DONE, status |-> chk], 0)
     ELSE IF cl.ret # 0
       THEN H(cl.s, LDB_ERR_OPERATIONS_ERROR, [ih.h EXCEPT !.state = LDB_ASYNC_DONE], 0)
     ELSE Finish(r, ih.h, ltdb_modify_internal(cl.s, msg))

\* the case-only path of a rename that forgets the add after the delete
RenameSameDN_DeleteOnly(s, r, msg) == ltdb_delete_internal(s, r.dn)

\* the add-then-delete path of a rename without the compensating delete
RenameOtherDN_NoCompensation(s, r, msg) ==
  LET Deleted(d) == IF d.ret # LDB_SUCCESS THEN R(d.s, LDB_ERR_OPERATIONS_ERROR) ELSE d
      Added(a) == IF a.ret # LDB_SUCCESS THEN a
                  ELSE Deleted(ltdb_delete_internal(a.s, r.dn))
  IN Added(ltdb_add_internal(s, msg))

\* the two paths of a rename once the old record is read: [s, ret]
RenameSameDN(s, r, msg) ==
  LET Deleted(d) == IF d.ret # LDB_SUCCESS THEN d ELSE ltdb_add_internal(d.s, msg)
  IN Deleted(ltdb_delete_internal(s, r.dn))

RenameOtherDN(s, r, msg) ==
  LET Deleted(d) ==
        IF d.ret # LDB_SUCCESS
          THEN R(ltdb_delete_internal(d.s, r.newdn).s, LDB_ERR_OPERATIONS_ERROR)
          ELSE d
      Added(a) == IF a.ret # LDB_SUCCESS THEN a
                  ELSE Deleted(ltdb_delete_internal(a.s, r.dn))
  IN Added(ltdb_add_internal(s, msg))

ltdb_rename(s, r) ==
  LET cl == ltdb_cache_load(s)
      ih == init_ltdb_handle(cl.s)
      sr == ltdb_search_dn1(ih.s, r.dn)
      msg == [dn |-> r.newdn, els |-> sr.msg.els]
      done == [ih.h EXCEPT !.state = LDB_ASYNC_DONE]
      Moved(mv) == IF mv.ret # LDB_SUCCESS THEN H(mv.s, mv.ret, done, 0)
                   ELSE IF r.callback THEN H(mv.s, CallbackRet(r), done, 1)
                   ELSE H(mv.s, LDB_SUCCESS, done, 0)
  IN IF check_critical_controls(r)
       THEN H(s, LDB_ERR_UNSUPPORTED_CRITICAL_EXTENSION, NoHandle, 0)
     ELSE IF cl.ret # 0 THEN H(cl.s, LDB_ERR_OPERATIONS_ERROR, NoHandle, 0)
     ELSE IF ih.h = NoHandle THEN H(ih.s, LDB_ERR_OPERATIONS_ERROR, NoHandle, 0)
     ELSE IF sr.ret # LDB_SUCCESS
       THEN H(ih.s, LDB_SUCCESS, [state |-> LDB_ASYNC_DONE, status |-> sr.ret], 0)
     ELSE Moved(IF ldb_dn_compare(r.dn, r.newdn) = 0
                  THEN RenameSameDN(ih.s, r, msg)
                  ELSE RenameOtherDN(ih.s, r, msg))

\* wait() on a handle: the stored status
ltdb_wait(h) == h.status

\* ltdb_request without the test for critical controls
ltdb_request_NoCheck(s, r) == H(s, LDB_ERR_OPERATIONS_ERROR, NoHandle, 0)

\* every request that is not a search, add, modify, delete or rename
ltdb_request(s, r) ==
  IF check_critical_controls(r)
    THEN H(s, LDB_ERR_UNSUPPORTED_CRITICAL_EXTENSION, NoHandle, 0)
  ELSE H(s, LDB_ERR_OPERATIONS_ERROR, NoHandle, 0)

\* the sequence-number query types
LDB_SEQ_HIGHEST_SEQ == "HIGHEST_SEQ"
LDB_SEQ_NEXT == "NEXT"
LDB_SEQ_HIGHEST_TIMESTAMP == "HIGHEST_TIMESTAMP"

LTDB_MOD_TIMESTAMP == "modifyTimestamp"

\* the generalized time strings the model knows; anything else does not parse
ldb_string_to_time(date) ==
  CASE date = "19700101000007.0Z" -> 7
    [] OTHER -> 0

\* the first value of the element of that name, "" when there is none (C: NULL)
ldb_msg_find_attr_as_string(els, name) ==
  LET Found(i) == IF i = 0 \/ els[i].values = <<>> THEN "" ELSE els[i].values[1]
  IN Found(find_element(els, name))

\* the sequence number of @BASEINFO read as an unsigned number
ldb_msg_find_attr_as_uint64(s) == s.seq

\* ltdb_sequence_number persisting the number it hands out as the next one
ltdb_sequence_number_Persist(s, r) ==
  LET Answer(n) == [s |-> s, ret |-> LDB_SUCCESS, req |-> [r EXCEPT !.seq_num = n]]
      Found(sr) ==
        IF sr.ret # LDB_SUCCESS THEN Answer(0)
        ELSE CASE r.type = LDB_SEQ_HIGHEST_SEQ -> Answer(ldb_msg_find_attr_as_uint64(s))
               [] r.type = LDB_SEQ_NEXT ->
                    [s |-> [s EXCEPT !.seq = @ + 1], ret |-> LDB_SUCCESS,
                     req |-> [r EXCEPT !.seq_num = ldb_msg_find_attr_as_uint64(s) + 1]]
               [] r.type = LDB_SEQ_HIGHEST_TIMESTAMP ->
                    Answer(IF ldb_msg_find_attr_as_string(sr.msg.els, LTDB_MOD_TIMESTAMP) # ""
                             THEN ldb_string_to_time(
                                    ldb_msg_find_attr_as_string(sr.msg.els, LTDB_MOD_TIMESTAMP))
                             ELSE 0)
               [] OTHER -> Answer(r.seq_num)
  IN Found(ltdb_search_dn1(s, LTDB_BASEINFO))

\* return sequenceNumber from @BASEINFO: [s, ret, req], the answer in req.seq_num
ltdb_sequence_number(s, r) ==
  LET Answer(n) == [s |-> s, ret |-> LDB_SUCCESS, req |-> [r EXCEPT !.seq_num = n]]
      Found(sr) ==
        IF sr.ret # LDB_SUCCESS THEN Answer(0)
        ELSE CASE r.type = LDB_SEQ_HIGHEST_SEQ -> Answer(ldb_msg_find_attr_as_uint64(s))
               [] r.type = LDB_SEQ_NEXT -> Answer(ldb_msg_find_attr_as_uint64(s) + 1)
               [] r.type = LDB_SEQ_HIGHEST_TIMESTAMP ->
                    Answer(IF ldb_msg_find_attr_as_string(sr.msg.els, LTDB_MOD_TIMESTAMP) # ""
                             THEN ldb_string_to_time(
                                    ldb_msg_find_attr_as_string(sr.msg.els, LTDB_MOD_TIMESTAMP))
                             ELSE 0)
               [] OTHER -> Answer(r.seq_num)
  IN Found(ltdb_search_dn1(s, LTDB_BASEINFO))

----------------------------------------------------------------------------
(* The requests the callers issue *)

El(n, vs) == [name |-> n, values |-> vs]

ModEl(f, n, vs) == [flags |-> f, name |-> n, values |-> vs]

Flags == {LDB_FLAG_MOD_ADD, LDB_FLAG_MOD_REPLACE, LDB_FLAG_MOD_DELETE, "NONE"}

Request(op, dn, newdn, els, flt, critical, callback) ==
  [op |-> op, dn |-> dn, newdn |-> newdn, els |-> els, flt |-> flt,
   critical |-> critical, callback |-> callback]

NoReq == Request("none", "", "", <<>>, NoFault, FALSE, FALSE)

Fault(k, n) == [kind |-> k, n |-> n]

\* the value lists of an incoming element: for the indexed attribute none, one
\* or two values, among them a repeated value; for the other none or one
SysLists(n) ==
  IF ltdb_is_indexed(n)
    THEN {<<>>, <<"bob">>, <<"carol">>, <<"bob", "carol">>, <<"bob", "bob">>}
    ELSE {<<>>, <<"bob">>}

SysEls == UNION {{El(n, vs) : vs \in SysLists(n)} : n \in Names}

SysMods == {ModEl(f, e.name, e.values) : f \in Flags, e \in SysEls}

\* messages of an add and of a modify: no element or one element; @BASEINFO is
\* written with the empty message only
AddMsgs(dn) ==
  IF ldb_dn_is_special(dn) THEN {<<>>} ELSE {<<>>} \cup {<<e>> : e \in SysEls}

ModMsgs(dn) ==
  IF ldb_dn_is_special(dn) THEN {<<>>} ELSE {<<>>} \cup {<<e>> : e \in SysMods}

\* the messages sent together with an injected fault
ProbeAdds == {<<El("member", <<"bob">>)>>}

ProbeMods ==
  {<<ModEl(LDB_FLAG_MOD_ADD, "member", <<"carol">>)>>,
   <<ModEl(LDB_FLAG_MOD_REPLACE, "member", <<"carol">>)>>,
   <<ModEl(LDB_FLAG_MOD_DELETE, "member", <<"bob">>)>>}

ProbeDNs == {"cn=x"}

\* the DNs adds and modifies name; cn=X is named by deletes and renames
WriteDNs == {"cn=x", "cn=y", LTDB_BASEINFO}

AddFaults == {"handle", "cache_load", "tdb_store", "index_add", "index_one", "seq"}
ModFaults == {"handle", "cache_load", "tdb_store", "index_add", "index_del_value", "seq"}
DelFaults == {"handle", "cache_load", "tdb_delete", "index_one", "index_del", "seq"}
RenFaults == AddFaults \cup DelFaults

\* the requests of one kind: fault-free with any message, with a fault and a
\* probe message, with a critical control, or without a callback
Family(op, dns, msgs, probes, faults, counts) ==
  {Request(op, d[1], d[2], m, NoFault, FALSE, TRUE) : d \in dns, m \in msgs}
  \cup {Request(op, d[1], d[2], m, Fault(k, n), FALSE, TRUE) :
          d \in {x \in dns : x[1] \in ProbeDNs}, m \in probes, k \in faults, n \in counts}
  \cup {Request(op, d[1], d[2], m, NoFault, c[1], c[2]) :
          d \in {x \in dns : x[1] \in ProbeDNs}, m \in probes,
          c \in {<<TRUE, TRUE>>, <<FALSE, FALSE>>}}

AddReqs ==
  UNION {Family("add", {<<dn, "">>}, AddMsgs(dn), ProbeAdds, AddFaults, {1}) : dn \in WriteDNs}

ModReqs ==
  UNION {Family("modify", {<<dn, "">>}, ModMsgs(dn), ProbeMods, ModFaults, {1}) : dn \in WriteDNs}

DelReqs == Family("delete", {<<dn, "">> : dn \in UserDNs}, {<<>>}, {<<>>}, DelFaults, {1})

RenReqs ==
  Family("rename", UserDNs \X UserDNs, {<<>>}, {<<>>}, RenFaults, 1..MaxFaults)

----------------------------------------------------------------------------
(* The state machine *)

EmptyStore ==
  [rec |-> [k \in Keys |-> IF k = LTDB_BASEINFO
                             THEN [present |-> TRUE, els |-> <<>>] ELSE Absent],
   idx |-> [k \in IdxKeys |-> <<>>],
   one |-> <<>>,
   seq |-> 0]

WithFault(db, flt) ==
  [rec |-> db.rec, idx |-> db.idx, one |-> db.one, seq |-> db.seq, flt |-> flt]

Store(s) == [rec |-> s.rec, idx |-> s.idx, one |-> s.one, seq |-> s.seq]

\* the stored records stay within the bounds of the model
InBounds(s) ==
  /\ s.seq <= MaxSeq
  /\ \A k \in Keys :
       /\ Len(s.rec[k].els) <= MaxEls
       /\ \A i \in 1..Len(s.rec[k].els) : Len(s.rec[k].els[i].values) <= MaxVals

Init ==
  /\ tdb = EmptyStore
  /\ snap = <<>>
  /\ in_transaction = 0
  /\ req = NoReq
  /\ ret = LDB_SUCCESS
  /\ handle = NoHandle
  /\ cb_calls = 0
  /\ schema = NoSchema
  /\ pc = "idle"

\* a request is issued and its handler runs to its return
Return(r, res) ==
  /\ pc = "open"
  /\ tdb' = Store(res.s)
  /\ req' = r
  /\ ret' = res.ret
  /\ handle' = res.handle
  /\ cb_calls' = res.cb
  /\ pc' = "returned"
  /\ UNCHANGED <<snap, in_transaction, schema>>

Issue(r, res) == pc = "open" /\ InBounds(res.s) /\ Return(r, res)

Add == \E r \in AddReqs : Issue(r, ltdb_add(WithFault(tdb, r.flt), r))

Modify == \E r \in ModReqs : Issue(r, ltdb_modify(WithFault(tdb, r.flt), r))

Delete == \E r \in DelReqs : Issue(r, ltdb_delete(WithFault(tdb, r.flt), r))

Rename == \E r \in RenReqs : Issue(r, ltdb_rename(WithFault(tdb, r.flt), r))

\* a request of another kind, with or without a critical control
OtherReqs == {Request("request", "", "", <<>>, NoFault, c, TRUE) : c \in BOOLEAN}

Generic == \E r \in OtherReqs : Issue(r, ltdb_request(WithFault(tdb, r.flt), r))

\* the caller is done with the request and its handle
Forget ==
  /\ req' = NoReq
  /\ ret' = LDB_SUCCESS
  /\ handle' = NoHandle
  /\ cb_calls' = 0
  /\ pc' = "idle"
  /\ UNCHANGED schema

\* the request reported success, by return value and by handle status
Reported == ret = LDB_SUCCESS /\ handle.status = LDB_SUCCESS

ltdb_start_trans ==
  /\ pc = "idle"
  /\ in_transaction' = in_transaction + 1
  /\ snap' = <<tdb>>
  /\ pc' = "open"
  /\ UNCHANGED <<tdb, req, ret, handle, cb_calls, schema>>

\* commit: the caller commits a transaction whose request reported success
ltdb_end_trans ==
  /\ pc = "returned"
  /\ in_transaction > 0
  /\ Reported
  /\ in_transaction' = in_transaction - 1
  /\ snap' = <<>>
  /\ Forget
  /\ UNCHANGED tdb

\* cancel: the caller cancels a transaction whose request reported an error
ltdb_del_trans ==
  /\ pc = "returned"
  /\ in_transaction > 0
  /\ ~Reported
  /\ in_transaction' = in_transaction - 1
  /\ tdb' = snap[1]
  /\ snap' = <<>>
  /\ Forget

Next ==
  \/ Add
  \/ Modify
  \/ Delete
  \/ Rename
  \/ Generic
  \/ ltdb_start_trans
  \/ ltdb_end_trans
  \/ ltdb_del_trans

Spec == Init /\ [][Next]_vars

----------------------------------------------------------------------------
(* One modify of one entry: the entry cn=x holds any elements within the bounds,
   a transaction is open, and one modify with a single element is issued *)

EntryDN == "cn=x"

EntryValues == {"bob", "carol"}

\* the elements the stored entry holds: an element has a value, and here it
\* has no value twice
EntryElements ==
  {El("member", vs) :
     vs \in {v \in SeqsUpTo(EntryValues, MaxVals) :
               v # <<>> /\ \A i, j \in 1..Len(v) : v[i] = v[j] => i = j}}
  \cup {El("desc", <<"bob">>)}

EntryRecords == SeqsUpTo(EntryElements, MaxEls)

\* the store after cn=x was added with these elements
EntryStore(els) ==
  [rec |-> [EmptyStore.rec EXCEPT ![ltdb_key(EntryDN)] = [present |-> TRUE, els |-> els]],
   idx |-> IdxApply(EmptyStore.idx, IndexedPairs(els), EntryDN, TRUE),
   one |-> <<EntryDN>>,
   seq |-> 1]

\* the modifies of the entry: one element, any flag, a name in either spelling,
\* up to MaxIn values
EntryReqs ==
  {Request("modify", EntryDN, "", <<ModEl(f, n, vs)>>, NoFault, FALSE, TRUE) :
     f \in Flags, n \in {"member", "Member", "desc"}, vs \in SeqsUpTo(Values, MaxIn)}

InitEntry ==
  /\ tdb \in {EntryStore(els) : els \in EntryRecords}
  /\ snap = <<tdb>>
  /\ in_transaction = 1
  /\ req = NoReq
  /\ ret = LDB_SUCCESS
  /\ handle = NoHandle
  /\ cb_calls = 0
  /\ schema = NoSchema
  /\ pc = "open"

ModifyEntry == \E r \in EntryReqs : Return(r, ltdb_modify(WithFault(tdb, r.flt), r))

NextEntry == ModifyEntry

SpecEntry == InitEntry /\ [][NextEntry]_vars

----------------------------------------------------------------------------
(* What the claims speak about *)

\* the keys among whose DNs one is on the list
KeysOn(list) == {ltdb_key(list[i]) : i \in 1..Len(list)}

NoDupDN(list) ==
  \A i, j \in 1..Len(list) : SameDN(list[i], list[j]) => i = j

\* the index keys of the indexed values of a record
IdxKeysOf(r) ==
  {ltdb_index_key(r.els[i].name, r.els[i].values[j]) :
     <<i, j>> \in {p \in (1..Len(r.els)) \X (1..MaxVals + MaxIn) :
                     /\ p[2] <= Len(r.els[p[1]].values)
                     /\ ltdb_is_indexed(r.els[p[1]].name)}}

\* every indexed value of every record has its DN on the index record
IndexCovers(db) ==
  \A K \in Keys : \A k \in IdxKeysOf(db.rec[K]) : K \in KeysOn(db.idx[k])

\* no index record lists a DN that does not hold the value
IndexExact(db) ==
  \A k \in IdxKeys : \A K \in KeysOn(db.idx[k]) :
    db.rec[K].present /\ k \in IdxKeysOf(db.rec[K])

IndexNoDup(db) == \A k \in IdxKeys : NoDupDN(db.idx[k])

\* the one-level index lists exactly the non-special records, each once
OneMatches(db) ==
  /\ NoDupDN(db.one)
  /\ \A K \in Keys : ~ldb_dn_is_special(K) => (K \in KeysOn(db.one) <=> db.rec[K].present)

Consistent(db) == IndexCovers(db) /\ IndexExact(db) /\ IndexNoDup(db) /\ OneMatches(db)

\* the sequence bumps of a fully applied request
Bump(r) ==
  IF ldb_dn_is_special(r.dn) /\ ldb_dn_check_special(r.dn, LTDB_BASEINFO) THEN 0
  ELSE IF r.op = "rename" THEN 2 ELSE 1

\* the primary records a fully applied request leaves
RecordEffect(pre, r, post) ==
  LET key == ltdb_key(r.dn)
      newkey == ltdb_key(r.newdn)
  IN CASE r.op = "add" ->
            /\ ~pre.rec[key].present
            /\ post.rec = [pre.rec EXCEPT ![key] =
                             [present |-> TRUE, els |-> ltdb_pack_data(r.els)]]
       [] r.op = "delete" ->
            /\ pre.rec[key].present
            /\ post.rec = [pre.rec EXCEPT ![key] = Absent]
       [] r.op = "rename" ->
            /\ pre.rec[key].present
            /\ post.rec = [[pre.rec EXCEPT ![key] = Absent] EXCEPT ![newkey] = pre.rec[key]]
       [] r.op = "modify" ->
            /\ pre.rec[key].present
            /\ post.rec[key].present
            /\ \A K \in Keys \ {key} : post.rec[K] = pre.rec[K]
       [] OTHER -> FALSE

\* the full effect of a request: the record, all index deltas, the sequence bump
FullEffect(pre, r, post) ==
  /\ RecordEffect(pre, r, post)
  /\ Consistent(post)
  /\ post.seq = pre.seq + Bump(r)

----------------------------------------------------------------------------
(* Claims *)

\* C1: a transaction that wraps one request and is committed on reported success
\* and cancelled otherwise ends with the full effect of the request in the store
\* or with the store as it was when the transaction began.
C1_Atomic ==
  [][(pc = "returned" /\ pc' = "idle") =>
       (tdb' = snap[1] \/ FullEffect(snap[1], req, tdb'))]_vars

\* a request has just returned
Returns == pc = "open" /\ pc' = "returned"

\* the request that returned reported a failure
Failed == ~Reported

\* a failing input of C1: REPLACE on an indexed attribute while index_del_value fails
C1_FailingInput ==
  /\ pc = "returned"
  /\ req.op = "modify"
  /\ req.flt.kind = "index_del_value"
  /\ Reported
  /\ ~IndexExact(tdb)

\* C2: after a failed modify returns, the record of its DN and the sequence
\* number are what they were before the modify.
C2_Original ==
  [][(Returns /\ req'.op = "modify" /\ Failed') =>
       /\ tdb'.rec[ltdb_key(req'.dn)] = tdb.rec[ltdb_key(req'.dn)]
       /\ tdb'.seq = tdb.seq]_vars

\* the part of C2 that holds: a failed modify leaves the sequence number
\* unchanged, and the record unchanged unless it failed in index_add (ltdb_store
\* then deletes the record) or in the modification hook (the record is already
\* rewritten).
C2_FailedModify ==
  [][(Returns /\ req'.op = "modify" /\ Failed') =>
       /\ tdb'.seq = tdb.seq
       /\ req'.flt.kind \notin {"index_add", "seq"} =>
            tdb'.rec[ltdb_key(req'.dn)] = tdb.rec[ltdb_key(req'.dn)]]_vars

\* a modify of an existing record with values has failed on a duplicate value
C2_Witness ==
  /\ pc = "returned"
  /\ req.op = "modify"
  /\ Failed
  /\ handle.status = LDB_ERR_ATTRIBUTE_OR_VALUE_EXISTS
  /\ tdb.rec[ltdb_key(req.dn)].els # <<>>
  /\ tdb.rec = snap[1].rec

\* the store is the outcome of successful operations only: no request is in
\* flight, or the one that returned reported success
AfterSuccess == pc \in {"idle", "open"} \/ (pc = "returned" /\ Reported)

\* C3: after successful operations every indexed value of every record has the
\* record's DN on its index record, and no index record lists a DN twice.
C3_IndexCovers == AfterSuccess => (IndexCovers(tdb) /\ IndexNoDup(tdb))

\* a successful rename has left two records sharing one index record
C3_Witness ==
  /\ pc = "returned"
  /\ Reported
  /\ req.op = "rename"
  /\ \E k \in IdxKeys : Len(tdb.idx[k]) = 2

\* no element of a stored record holds two values equal under its comparison
NoDupValues(db) ==
  \A K \in Keys : \A i \in 1..Len(db.rec[K].els) :
    LET e == db.rec[K].els[i]
    IN \A j1, j2 \in 1..Len(e.values) :
         comparison_fn(e.name, e.values[j1], e.values[j2]) = 0 => j1 = j2

\* C4: after successful adds and modifies no stored element holds two values
\* that are equal under the attribute's comparison.
C4_NoDuplicateValues == AfterSuccess => NoDupValues(tdb)

\* a failing input of C4: an add whose element lists one value twice succeeded
C4_FailingInput ==
  /\ pc = "returned"
  /\ Reported
  /\ req.op = "add"
  /\ ~NoDupValues(tdb)

SameIndexEntries(db1, db2, K) ==
  /\ \A k \in IdxKeys : (K \in KeysOn(db1.idx[k])) <=> (K \in KeysOn(db2.idx[k]))
  /\ (K \in KeysOn(db1.one)) <=> (K \in KeysOn(db2.one))

\* C6: a successful rename between DNs that differ only in case keeps the
\* primary key, every element and value of the entry and its index entries; it
\* is a delete followed by an add: the sequence number rises by two and the
\* index records list the entry under its new DN.
C6_RenameCaseOnly ==
  [][(Returns /\ req'.op = "rename" /\ Reported'
        /\ ldb_dn_compare(req'.dn, req'.newdn) = 0) =>
       /\ tdb'.rec = tdb.rec
       /\ SameIndexEntries(tdb, tdb', ltdb_key(req'.dn))
       /\ tdb'.seq = tdb.seq + 2
       /\ \A k \in IdxKeysOf(tdb.rec[ltdb_key(req'.dn)]) :
            \E i \in 1..Len(tdb'.idx[k]) : tdb'.idx[k][i] = req'.newdn]_vars

\* cn=x, holding indexed values, has been renamed to cn=X
C6_Witness ==
  /\ pc = "returned"
  /\ Reported
  /\ req.op = "rename"
  /\ req.dn # req.newdn
  /\ ldb_dn_compare(req.dn, req.newdn) = 0
  /\ IdxKeysOf(tdb.rec[ltdb_key(req.dn)]) # {}

\* the error a request reported: its return value, else its handle's status
ErrorOf(rv, h) == IF rv # LDB_SUCCESS THEN rv ELSE h.status

\* an add of an existing DN, or a rename of an existing DN to another existing DN
Collides(db, r) ==
  \/ r.op = "add" /\ db.rec[ltdb_key(r.dn)].present
  \/ /\ r.op = "rename"
     /\ ldb_dn_compare(r.dn, r.newdn) # 0
     /\ db.rec[ltdb_key(r.dn)].present
     /\ db.rec[ltdb_key(r.newdn)].present

\* C7: an add of an existing DN and a rename between distinct DNs onto an
\* existing DN fail with entry-already-exists and change nothing in the store.
C7_AlreadyExists ==
  [][(Returns /\ Collides(tdb, req') /\ req'.flt = NoFault /\ ~req'.critical) =>
       /\ Failed'
       /\ ErrorOf(ret', handle') = LDB_ERR_ENTRY_ALREADY_EXISTS
       /\ tdb' = tdb]_vars

\* a rename of an indexed entry onto an existing DN has failed
C7_Witness ==
  /\ pc = "returned"
  /\ req.op = "rename"
  /\ req.flt = NoFault
  /\ Collides(snap[1], req)
  /\ IdxKeysOf(snap[1].rec[ltdb_key(req.dn)]) # {}
  /\ ret = LDB_ERR_ENTRY_ALREADY_EXISTS

\* a rename of an existing DN to a distinct DN that does not exist
Moves(db, r) ==
  /\ r.op = "rename"
  /\ ~r.critical
  /\ ldb_dn_compare(r.dn, r.newdn) # 0
  /\ db.rec[ltdb_key(r.dn)].present
  /\ ~db.rec[ltdb_key(r.newdn)].present

\* C8: in a rename between distinct DNs the add comes first: when the add
\* fails the old record is untouched.  When the delete of the old DN then
\* fails, the rename returns operations-error and the new record has been
\* deleted again if the compensating delete worked (the records and index
\* entries are then those before the rename when the failed delete had not
\* removed the old record), while the new record stands beside the old one if
\* the compensating delete failed too.
C8_RenameCompensates ==
  [][(Returns /\ Moves(tdb, req')) =>
       LET old == ltdb_key(req'.dn)
           new == ltdb_key(req'.newdn)
       IN /\ req'.flt.kind = "tdb_store" =>
               ret' # LDB_SUCCESS /\ tdb'.rec = tdb.rec
          /\ req'.flt.kind \in {"tdb_delete", "index_del"} =>
               /\ ret' = LDB_ERR_OPERATIONS_ERROR
               /\ req'.flt.n = 1 => ~tdb'.rec[new].present
          /\ (req'.flt.kind = "tdb_delete" /\ req'.flt.n = 1) =>
               /\ tdb'.rec = tdb.rec
               /\ SameIndexEntries(tdb, tdb', old)
               /\ SameIndexEntries(tdb, tdb', new)
          /\ (req'.flt.kind = "tdb_delete" /\ req'.flt.n >= 2) =>
               /\ tdb'.rec[new] = tdb.rec[old]
               /\ tdb'.rec[old] = tdb.rec[old]]_vars

\* the delete of the old DN of an indexed entry failed and was compensated
C8_Witness ==
  /\ pc = "returned"
  /\ Moves(snap[1], req)
  /\ req.flt = Fault("tdb_delete", 1)
  /\ ret = LDB_ERR_OPERATIONS_ERROR
  /\ IdxKeysOf(snap[1].rec[ltdb_key(req.dn)]) # {}
  /\ tdb.rec = snap[1].rec

\* the places of the elements of an entry that carry the attribute name n
Named(els, n) == {i \in 1..Len(els) : AttrFold(els[i].name) = AttrFold(n)}

First(S) == CHOOSE i \in S : \A j \in S : i <= j

\* two values of the attribute are equal under its syntax
EqualValues(n, v, w) == Canon(n, v) = Canon(n, w)

\* a value is listed twice among the incoming values
Repeats(el) ==
  \E j1, j2 \in 1..Len(el.values) :
    j1 < j2 /\ EqualValues(el.name, el.values[j1], el.values[j2])

\* an incoming value equals a value the element holds
Meets(old, el) ==
  \E j \in 1..Len(el.values), i \in 1..Len(old.values) :
    EqualValues(el.name, el.values[j], old.values[i])

\* a modify of one element with the given flag returns for an existing entry
ModifyOne(flag) ==
  /\ Returns
  /\ req'.op = "modify"
  /\ req'.flt = NoFault
  /\ ~req'.critical
  /\ Len(req'.els) = 1
  /\ req'.els[1].flags = flag
  /\ tdb.rec[ltdb_key(req'.dn)].present

\* C9: a modify ADD(el) of an entry without an element named el appends el;
\* of an entry with one it is rejected with attribute-or-value-exists, the
\* entry unchanged, when an incoming value equals a value of the (first) element
\* of that name or is listed twice, and otherwise that element afterwards holds
\* its values followed by the incoming values in order.
C9_ModifyAdd ==
  [][ModifyOne(LDB_FLAG_MOD_ADD) =>
       LET pre == tdb.rec[ltdb_key(req'.dn)].els
           post == tdb'.rec[ltdb_key(req'.dn)].els
           el == req'.els[1]
           S == Named(pre, el.name)
       IN IF S = {}
            THEN /\ Reported'
                 /\ post = IF el.values = <<>> THEN pre
                           ELSE Append(pre, El(el.name, el.values))
          ELSE IF Meets(pre[First(S)], el) \/ Repeats(el)
            THEN /\ ErrorOf(ret', handle') = LDB_ERR_ATTRIBUTE_OR_VALUE_EXISTS
                 /\ post = pre
          ELSE /\ Reported'
               /\ post = [pre EXCEPT ![First(S)].values = @ \o el.values]]_vars

\* two values were added to an element that held one
C9_Witness ==
  /\ pc = "returned"
  /\ Reported
  /\ req.op = "modify"
  /\ req.els[1].flags = LDB_FLAG_MOD_ADD
  /\ Len(req.els[1].values) = 2
  /\ Named(snap[1].rec[ltdb_key(req.dn)].els, req.els[1].name) # {}
  /\ \E i \in 1..Len(tdb.rec[ltdb_key(req.dn)].els) :
       Len(tdb.rec[ltdb_key(req.dn)].els[i].values) = 3

\* C10: a modify REPLACE(el) is rejected with attribute-or-value-exists when an
\* incoming value is listed twice; otherwise it succeeds, whether or not the
\* entry had the attribute, every element that carried el's name is gone, the
\* other elements are kept in order, and el's values stand in one new element
\* at the end when el has a value, in no element when it has none.
C10_ModifyReplace ==
  [][ModifyOne(LDB_FLAG_MOD_REPLACE) =>
       LET pre == tdb.rec[ltdb_key(req'.dn)].els
           post == tdb'.rec[ltdb_key(req'.dn)].els
           el == req'.els[1]
           others == SelectSeq(pre, LAMBDA e : AttrFold(e.name) # AttrFold(el.name))
       IN IF Repeats(el)
            THEN ErrorOf(ret', handle') = LDB_ERR_ATTRIBUTE_OR_VALUE_EXISTS
          ELSE /\ Reported'
               /\ post = IF el.values = <<>> THEN others
                         ELSE Append(others, El(el.name, el.values))
               /\ Cardinality(Named(post, el.name)) = IF el.values = <<>> THEN 0 ELSE 1]_vars

\* an entry with two elements of the name was left with one holding el's values
C10_Witness ==
  /\ pc = "returned"
  /\ Reported
  /\ req.op = "modify"
  /\ req.els[1].flags = LDB_FLAG_MOD_REPLACE
  /\ req.els[1].values # <<>>
  /\ Cardinality(Named(snap[1].rec[ltdb_key(req.dn)].els, req.els[1].name)) = 2
  /\ Cardinality(Named(tdb.rec[ltdb_key(req.dn)].els, req.els[1].name)) = 1

\* the number of values of the elements named n that equal v
Holding(els, n, v) ==
  Cardinality({<<i, k>> \in (1..Len(els)) \X (1..MaxVals + MaxIn) :
                 /\ i \in Named(els, n)
                 /\ k <= Len(els[i].values)
                 /\ EqualValues(n, els[i].values[k], v)})

\* C11: a modify DELETE(el) without incoming values removes every element of
\* that name and fails with no-such-attribute, the entry unchanged, when the
\* entry has none; with incoming values it fails with no-such-attribute, the
\* entry unchanged, when one of them equals no value of the entry's attribute,
\* and when it succeeds the entry holds fewer values equal to each of them.
C11_ModifyDelete ==
  [][ModifyOne(LDB_FLAG_MOD_DELETE) =>
       LET pre == tdb.rec[ltdb_key(req'.dn)].els
           post == tdb'.rec[ltdb_key(req'.dn)].els
           el == req'.els[1]
           S == Named(pre, el.name)
       IN IF el.values = <<>>
            THEN IF S = {}
                   THEN /\ ErrorOf(ret', handle') = LDB_ERR_NO_SUCH_ATTRIBUTE
                        /\ post = pre
                 ELSE /\ Reported'
                      /\ Named(post, el.name) = {}
          ELSE /\ (\E j \in 1..Len(el.values) : Holding(pre, el.name, el.values[j]) = 0) =>
                    /\ ErrorOf(ret', handle') = LDB_ERR_NO_SUCH_ATTRIBUTE
                    /\ post = pre
               /\ Reported' =>
                    \A j \in 1..Len(el.values) :
                      Holding(post, el.name, el.values[j]) < Holding(pre, el.name, el.values[j])]_vars

\* a DELETE without values of an attribute the entry does not have
C11_FailingInput ==
  /\ pc = "returned"
  /\ req.op = "modify"
  /\ Len(req.els) = 1
  /\ req.els[1].flags = LDB_FLAG_MOD_DELETE
  /\ req.els[1].values = <<>>
  /\ snap[1].rec[ltdb_key(req.dn)].present
  /\ Named(snap[1].rec[ltdb_key(req.dn)].els, req.els[1].name) = {}
  /\ Reported

\* the index keys an entry held before the request and no longer holds after it
RemovedKeys(db, db2, dn) == IdxKeysOf(db.rec[ltdb_key(dn)]) \ IdxKeysOf(db2.rec[ltdb_key(dn)])

\* a modify or a delete of an entry returned success
Removing ==
  /\ Returns
  /\ Reported'
  /\ req'.op \in {"modify", "delete"}
  /\ tdb.rec[ltdb_key(req'.dn)].present

\* C12: after a successful modify or delete of an entry, no index record of an
\* (attribute, value) the entry held before and no longer holds lists the
\* entry's DN (an index record without DNs is the empty list, which is how a
\* record that does not exist reads).
C12_IndexRemoved ==
  [][Removing => \A k \in RemovedKeys(tdb, tdb', req'.dn) : ~InList(tdb'.idx[k], req'.dn)]_vars

\* a REPLACE took the indexed value bob from the entry while index_del_value failed
C12_FailingInput ==
  /\ pc = "returned"
  /\ Reported
  /\ req.op = "modify"
  /\ req.flt = Fault("index_del_value", 1)
  /\ req.els[1].flags = LDB_FLAG_MOD_REPLACE
  /\ RemovedKeys(snap[1], tdb, req.dn) # {}

----------------------------------------------------------------------------
(* Modifies of two elements: the single entry cn=x takes one modify that    *)
(* carries two elements, each an ADD, a REPLACE or a DELETE.                *)

PairOps ==
  {ModEl(f, e.name, e.values) :
     f \in {LDB_FLAG_MOD_ADD, LDB_FLAG_MOD_REPLACE, LDB_FLAG_MOD_DELETE}, e \in SysEls}

EntryModify(ops) == Request("modify", EntryDN, "", ops, NoFault, FALSE, TRUE)

PairReqs == {EntryModify(<<op1, op2>>) : op1, op2 \in PairOps}

ModifyPair == \E r \in PairReqs : Return(r, ltdb_modify(WithFault(tdb, r.flt), r))

NextPair == ModifyPair

SpecPair == InitEntry /\ [][NextPair]_vars

\* a modify carrying [op1] followed, when it succeeded, by a modify carrying [op2]
ModifyTwice(db, op1, op2) ==
  LET Second(one) ==
        IF one.ret # LDB_SUCCESS \/ one.handle.status # LDB_SUCCESS THEN one
        ELSE ltdb_modify(one.s, EntryModify(<<op2>>))
  IN Second(ltdb_modify(WithFault(db, NoFault), EntryModify(<<op1>>)))

\* a modify of two elements has just returned
PairReturns == Returns /\ req'.op = "modify" /\ Len(req'.els) = 2

\* C13: one modify carrying [op1, op2] has the outcome (success or the same
\* error) of a modify carrying [op1] followed by a modify carrying [op2], and
\* when they succeed they leave the same record of the entry and the same index.
C13_OrderPreserving ==
  [][PairReturns =>
       LET Same(two) ==
             /\ ErrorOf(ret', handle') = ErrorOf(two.ret, two.handle)
             /\ Reported' =>
                  /\ tdb'.rec[ltdb_key(EntryDN)] = two.s.rec[ltdb_key(EntryDN)]
                  /\ tdb'.idx = two.s.idx
       IN Same(ModifyTwice(tdb, req'.els[1], req'.els[2]))]_vars

\* an ADD without values followed by an ADD of a value listed twice
C13_FailingInput ==
  /\ pc = "returned"
  /\ req.op = "modify"
  /\ Len(req.els) = 2
  /\ req.els[1] = ModEl(LDB_FLAG_MOD_ADD, "member", <<>>)
  /\ req.els[2] = ModEl(LDB_FLAG_MOD_ADD, "member", <<"bob", "bob">>)
  /\ Named(snap[1].rec[ltdb_key(EntryDN)].els, "member") = {}
  /\ ErrorOf(ret, handle) = LDB_ERR_ATTRIBUTE_OR_VALUE_EXISTS

\* a delete that passed the critical-control test, the cache load and the
\* creation of its handle has just returned
Deletes ==
  /\ Returns
  /\ req'.op = "delete"
  /\ ~req'.critical
  /\ req'.flt.kind \notin {"handle", "cache_load"}

\* the steps of a delete seen in the store: the primary record is gone, the
\* one-level index entry is gone, the attribute index entries are gone, the hook ran
RecordGone(db, dn) == ~db.rec[ltdb_key(dn)].present

OneGone(db, dn) == ~InList(db.one, dn)

IndexGone(db, db2, dn) ==
  \A k \in IdxKeys :
    db2.idx[k] = IF k \in IdxKeysOf(db.rec[ltdb_key(dn)]) THEN ListDel(db.idx[k], dn)
                 ELSE db.idx[k]

\* C14: a delete of a DN without a primary record fails with no-such-object and
\* leaves the store as it was; a delete of an existing DN removes the primary
\* record, then the one-level index entry, then the attribute index entries,
\* then runs the modification hook, and when a step fails the delete fails with
\* the steps before it done and that step and the later steps not done.
C14_DeleteOrder ==
  [][Deletes =>
       LET dn == req'.dn
           K == ltdb_key(dn)
           k == req'.flt.kind
       IN IF ~tdb.rec[K].present
            THEN ErrorOf(ret', handle') = LDB_ERR_NO_SUCH_OBJECT /\ tdb' = tdb
          ELSE /\ Reported' <=> k = "none"
               /\ \A K2 \in Keys \ {K} : tdb'.rec[K2] = tdb.rec[K2]
               /\ IF k = "tdb_delete" THEN tdb' = tdb ELSE RecordGone(tdb', dn)
               /\ IF k \in {"tdb_delete", "index_one"}
                    THEN tdb'.one = tdb.one ELSE OneGone(tdb', dn)
               /\ IF k \in {"tdb_delete", "index_one", "index_del"}
                    THEN tdb'.idx = tdb.idx ELSE IndexGone(tdb, tdb', dn)
               /\ tdb'.seq = IF k = "none" THEN tdb.seq + 1 ELSE tdb.seq]_vars

\* the delete of an indexed entry stopped at the removal of its attribute index
\* entries: the record and the one-level entry are gone, the index still lists it
C14_Witness ==
  /\ pc = "returned"
  /\ req.op = "delete"
  /\ req.flt = Fault("index_del", 1)
  /\ IdxKeysOf(snap[1].rec[ltdb_key(req.dn)]) # {}
  /\ ~Reported
  /\ RecordGone(tdb, req.dn)
  /\ OneGone(tdb, req.dn)
  /\ tdb.idx = snap[1].idx

----------------------------------------------------------------------------
(* Requests on the meta records: adds, modifies and deletes of @ATTRIBUTES, *)
(* @INDEXLIST, @BASEINFO and of the entry cn=y, while the entry cn=x holds  *)
(* an indexed value.                                                        *)

MetaDNs == {LTDB_ATTRIBUTES, LTDB_INDEXLIST, LTDB_BASEINFO, "cn=y"}

\* an attribute-flags value of the grammar and one outside it
MetaEls == {El("desc", <<"CASE_INSENSITIVE">>), El("desc", <<"bogus">>)}

MetaAddMsgs == {<<>>} \cup {<<e>> : e \in MetaEls}

MetaModMsgs ==
  {<<ModEl(f, e.name, e.values)>> : f \in {LDB_FLAG_MOD_ADD, LDB_FLAG_MOD_REPLACE}, e \in MetaEls}

MetaFaults ==
  {NoFault} \cup {Fault(k, 1) : k \in {"cache_load", "tdb_store", "reindex", "seq"}}

MetaReqs ==
  {Request("add", dn, "", m, f, FALSE, TRUE) : dn \in MetaDNs, m \in MetaAddMsgs, f \in MetaFaults}
  \cup {Request("modify", dn, "", m, f, FALSE, TRUE) :
          dn \in MetaDNs, m \in MetaModMsgs, f \in MetaFaults}
  \cup {Request("delete", dn, "", <<>>, f, FALSE, TRUE) : dn \in MetaDNs, f \in MetaFaults}

\* cn=x with member: [bob], its index exact, or with the entry (member, carol)
\* that a REPLACE of member: [carol] left behind when index_del_value failed
BaseStores ==
  {EntryStore(<<El("member", <<"bob">>)>>),
   [EntryStore(<<El("member", <<"bob">>)>>) EXCEPT
      !.idx[ltdb_index_key("member", "carol")] = <<EntryDN>>]}

\* the store after the records of the DNs in S were added to it
RECURSIVE WithRecords(_, _)
WithRecords(db, S) ==
  IF S = {} THEN db
  ELSE LET dn == CHOOSE x \in S : TRUE
           Added(res) == [Store(res.s) EXCEPT !.seq = db.seq, !.idx = db.idx]
       IN WithRecords(Added(ltdb_add_internal(WithFault(db, NoFault),
                                              [dn |-> dn, els |-> <<El("desc", <<"CASE_INSENSITIVE">>)>>])),
                      S \ {dn})

MetaStores ==
  {WithRecords(db, S) : db \in BaseStores, S \in SUBSET (MetaDNs \ {LTDB_BASEINFO})}

\* inside a transaction, before the request
InitMeta ==
  /\ tdb \in MetaStores
  /\ snap = <<tdb>>
  /\ in_transaction = 1
  /\ req = NoReq
  /\ ret = LDB_SUCCESS
  /\ handle = NoHandle
  /\ cb_calls = 0
  /\ schema = NoSchema
  /\ pc = "open"

AddMeta ==
  \E r \in MetaReqs : r.op = "add" /\ Issue(r, ltdb_add(WithFault(tdb, r.flt), r))

ModifyMeta ==
  \E r \in MetaReqs : r.op = "modify" /\ Issue(r, ltdb_modify(WithFault(tdb, r.flt), r))

DeleteMeta ==
  \E r \in MetaReqs : r.op = "delete" /\ Issue(r, ltdb_delete(WithFault(tdb, r.flt), r))

NextMeta ==
  \/ AddMeta
  \/ ModifyMeta
  \/ DeleteMeta

SpecMeta == InitMeta /\ [][NextMeta]_vars

\* the DNs whose change makes the modification hook reindex
Reindexing(dn) == dn \in {LTDB_ATTRIBUTES, LTDB_INDEXLIST}

\* every index record lists exactly the entries that hold its value
Reindexed(db) == IndexCovers(db) /\ IndexExact(db)

\* C15: after a successful add, modify or delete of @ATTRIBUTES or @INDEXLIST
\* the index is rebuilt and the sequence number is one higher; when the reindex
\* fails the request fails, the index and the sequence number as they were;
\* when the bump fails after the record was written the index is already
\* rebuilt.  For every other DN the index entries of the other entries stay as
\* they are and a failing reindex is never met, and for @BASEINFO the
\* sequence number stays and a failing bump is never met.
C15_Hook ==
  [][(Returns /\ ~req'.critical) =>
       LET dn == req'.dn
           k == req'.flt.kind
           wrote == tdb'.rec # tdb.rec
       IN IF Reindexing(dn)
            THEN /\ Reported' => (Reindexed(tdb') /\ tdb'.seq = tdb.seq + 1)
                 /\ k = "reindex" =>
                      (~Reported' /\ tdb'.seq = tdb.seq /\ tdb'.idx = tdb.idx)
                 /\ (k = "seq" /\ wrote) =>
                      (~Reported' /\ tdb'.seq = tdb.seq /\ Reindexed(tdb'))
          ELSE /\ SameIndexEntries(tdb, tdb', ltdb_key(EntryDN))
               /\ (k = "reindex" /\ wrote) => Reported'
               /\ Reported' =>
                    tdb'.seq = IF dn = LTDB_BASEINFO THEN tdb.seq ELSE tdb.seq + 1
               /\ (dn = LTDB_BASEINFO /\ k = "seq" /\ wrote) => Reported']_vars

\* the record of @INDEXLIST was written and the index, which listed cn=x under
\* a value it does not hold, was rebuilt before the bump failed
C15_Witness ==
  /\ pc = "returned"
  /\ req.dn = LTDB_INDEXLIST
  /\ req.flt = Fault("seq", 1)
  /\ ~IndexExact(snap[1])
  /\ tdb.rec # snap[1].rec
  /\ ~Reported
  /\ Reindexed(tdb)
  /\ tdb.seq = snap[1].seq

\* a value of the message is outside the attribute-flags grammar
BadFlags(els) ==
  \E i \in 1..Len(els) : \E j \in 1..Len(els[i].values) :
    ltdb_check_at_attributes_values(els[i].values[j]) # 0

\* C16: an add or modify of @ATTRIBUTES whose message holds a value outside the
\* attribute-flags grammar fails with invalid-attribute-syntax and leaves the
\* store as it was, also when the cache load or the write would have failed;
\* an add or modify of any other DN never fails with invalid-attribute-syntax.
C16_CheckSpecialDN ==
  [][(Returns /\ ~req'.critical /\ req'.op \in {"add", "modify"}) =>
       IF req'.dn = LTDB_ATTRIBUTES
         THEN BadFlags(req'.els) =>
                /\ ErrorOf(ret', handle') = LDB_ERR_INVALID_ATTRIBUTE_SYNTAX
                /\ tdb' = tdb
       ELSE ErrorOf(ret', handle') # LDB_ERR_INVALID_ATTRIBUTE_SYNTAX]_vars

\* a modify of the stored @ATTRIBUTES record with a value outside the grammar
\* was rejected although the cache load was going to fail
C16_Witness ==
  /\ pc = "returned"
  /\ req.op = "modify"
  /\ req.dn = LTDB_ATTRIBUTES
  /\ BadFlags(req.els)
  /\ req.flt = Fault("cache_load", 1)
  /\ snap[1].rec[ltdb_key(LTDB_ATTRIBUTES)].present
  /\ handle.status = LDB_ERR_INVALID_ATTRIBUTE_SYNTAX
  /\ tdb = snap[1]

\* C17: every add, modify, delete, rename and generic request that carries a
\* critical control returns unsupported-critical-extension with no handle
\* created, no callback invoked and the store as it was; a generic request
\* without one returns operations-error.
C17_CriticalControl ==
  [][Returns =>
       IF req'.critical
         THEN /\ ret' = LDB_ERR_UNSUPPORTED_CRITICAL_EXTENSION
              /\ handle' = NoHandle
              /\ cb_calls' = 0
              /\ tdb' = tdb
       ELSE req'.op = "request" => ret' = LDB_ERR_OPERATIONS_ERROR]_vars

\* a rename of a stored entry to a free DN, with a callback and a critical
\* control, was turned away
C17_Witness ==
  /\ pc = "returned"
  /\ req.critical
  /\ req.callback
  /\ req.op = "rename"
  /\ snap[1].rec[ltdb_key(req.dn)].present
  /\ ~snap[1].rec[ltdb_key(req.newdn)].present
  /\ ret = LDB_ERR_UNSUPPORTED_CRITICAL_EXTENSION
  /\ tdb = snap[1]

\* an add, modify, delete or rename created its handle and its mutation failed
FailedWithHandle ==
  /\ Returns
  /\ req'.op \in {"add", "modify", "delete", "rename"}
  /\ handle' # NoHandle
  /\ ~Reported'

\* C18: when an add, modify, delete or rename that created a handle fails, the
\* status of the handle is the error: wait() on the handle does not return
\* success.
C18_StatusOnHandle ==
  [][FailedWithHandle => ltdb_wait(handle') # LDB_SUCCESS]_vars

\* a rename to the DN of another stored entry, no fault injected
C18_FailingInput ==
  /\ pc = "returned"
  /\ req.op = "rename"
  /\ req.flt = NoFault
  /\ Collides(snap[1], req)
  /\ ret = LDB_ERR_ENTRY_ALREADY_EXISTS
  /\ handle # NoHandle
  /\ ltdb_wait(handle) = LDB_SUCCESS

\* an add, modify, delete or rename with a completion callback got past the
\* critical-control test, the cache load and the creation of its handle, so its
\* mutation was tried
Engaged ==
  /\ Returns
  /\ req'.op \in {"add", "modify", "delete", "rename"}
  /\ req'.callback
  /\ ~req'.critical
  /\ req'.flt.kind \notin {"handle", "cache_load"}

\* C19: when such a request returns, its callback was invoked exactly once,
\* whether the mutation succeeded or failed.
C19_CallbackOnce ==
  [][Engaged => cb_calls' = 1]_vars

\* an add of a DN that is stored, with a callback, no fault injected
C19_FailingInput ==
  /\ pc = "returned"
  /\ req.op = "add"
  /\ req.callback
  /\ req.flt = NoFault
  /\ Collides(snap[1], req)
  /\ handle.status = LDB_ERR_ENTRY_ALREADY_EXISTS
  /\ cb_calls = 0

\* the part of C19 that holds: the callback of a request that succeeded was
\* invoked exactly once, the callback of a failed request was not invoked
C19_CallbackOnSuccess ==
  [][Engaged => cb_calls' = IF Reported' THEN 1 ELSE 0]_vars

----------------------------------------------------------------------------
(* The life of a request handle: a handler is taken in two steps, the       *)
(* creation of its handle and the rest of its run up to its return.         *)

\* the handler of a request
Handler(s, r) ==
  CASE r.op = "add" -> ltdb_add(s, r)
    [] r.op = "modify" -> ltdb_modify(s, r)
    [] r.op = "delete" -> ltdb_delete(s, r)
    [] r.op = "rename" -> ltdb_rename(s, r)
    [] OTHER -> ltdb_request(s, r)

\* the handler gets as far as init_ltdb_handle and the handle is allocated
CreatesHandle(s, r) ==
  /\ r.op \in {"add", "modify", "delete", "rename"}
  /\ ~check_critical_controls(r)
  /\ r.op \in {"delete", "rename"} => ltdb_cache_load(s).ret = 0
  /\ init_ltdb_handle(s).h # NoHandle

\* requests on cn=x: with and without a stored record, a fault, a callback
HandleReqs ==
  {r \in AddReqs \cup ModReqs \cup DelReqs \cup RenReqs \cup OtherReqs :
     /\ r.dn \in {"", "cn=x"}
     /\ r.els \in {<<>>} \cup ProbeAdds \cup ProbeMods}

CreateHandle ==
  \E r \in HandleReqs :
    /\ pc = "open"
    /\ CreatesHandle(WithFault(tdb, r.flt), r)
    /\ InBounds(Handler(WithFault(tdb, r.flt), r).s)
    /\ req' = r
    /\ handle' = init_ltdb_handle(WithFault(tdb, r.flt)).h
    /\ pc' = "created"
    /\ UNCHANGED <<tdb, snap, in_transaction, ret, cb_calls, schema>>

Complete ==
  /\ pc = "created"
  /\ \E res \in {Handler(WithFault(tdb, req.flt), req)} :
       /\ tdb' = Store(res.s)
       /\ ret' = res.ret
       /\ handle' = res.handle
       /\ cb_calls' = res.cb
  /\ pc' = "returned"
  /\ UNCHANGED <<req, snap, in_transaction, schema>>

\* a request that returns before it has a handle
Refuse ==
  \E r \in HandleReqs :
    /\ pc = "open"
    /\ ~CreatesHandle(WithFault(tdb, r.flt), r)
    /\ Issue(r, Handler(WithFault(tdb, r.flt), r))

NextHandle ==
  \/ CreateHandle
  \/ Complete
  \/ Refuse
  \/ ltdb_start_trans
  \/ ltdb_end_trans
  \/ ltdb_del_trans

SpecHandle == Init /\ [][NextHandle]_vars

\* C20: a request handle is created in state INIT with status success; when an
\* add, modify, delete or rename returns with a handle, the handle is in state
\* DONE, after a success and after every failure; no handle goes from DONE to
\* INIT.
C20_HandleStates ==
  [][/\ (pc = "open" /\ pc' = "created") =>
          (handle'.state = LDB_ASYNC_INIT /\ handle'.status = LDB_SUCCESS)
     /\ (pc' = "returned" /\ handle' # NoHandle) => handle'.state = LDB_ASYNC_DONE
     /\ handle.state = LDB_ASYNC_DONE => handle'.state # LDB_ASYNC_INIT]_vars

\* a rename whose delete failed returned the error with its handle DONE
C20_Witness ==
  /\ pc = "returned"
  /\ req.op = "rename"
  /\ req.flt.kind = "tdb_delete"
  /\ ret # LDB_SUCCESS
  /\ handle.state = LDB_ASYNC_DONE

----------------------------------------------------------------------------
(* Sequence-number queries: one query on a store whose @BASEINFO record is  *)
(* stored without a time stamp, stored with one, or missing.                *)

SeqTypes == {LDB_SEQ_HIGHEST_SEQ, LDB_SEQ_NEXT, LDB_SEQ_HIGHEST_TIMESTAMP}

\* a sequence-number request: the type asked for, the answer in seq_num
SeqReqs ==
  {[op |-> "sequence_number", dn |-> "", newdn |-> "", els |-> <<>>, flt |-> NoFault,
    critical |-> FALSE, callback |-> FALSE, type |-> t, seq_num |-> 0] : t \in SeqTypes}

\* the store after modifyTimestamp was written to @BASEINFO
Stamped(db) ==
  Store(ltdb_modify_internal(
          WithFault(db, NoFault),
          [dn |-> LTDB_BASEINFO,
           els |-> <<ModEl(LDB_FLAG_MOD_REPLACE, LTDB_MOD_TIMESTAMP,
                           <<"19700101000007.0Z">>)>>]).s)

\* the store after @BASEINFO was deleted
Unbased(db) == Store(ltdb_delete_internal(WithFault(db, NoFault), LTDB_BASEINFO).s)

SeqStores ==
  UNION {{d, Stamped(d), Unbased(d)} :
           d \in {[db EXCEPT !.seq = n] : db \in MetaStores, n \in 0..MaxSeq}}

InitSeq ==
  /\ tdb \in SeqStores
  /\ snap = <<tdb>>
  /\ in_transaction = 1
  /\ req = NoReq
  /\ ret = LDB_SUCCESS
  /\ handle = NoHandle
  /\ cb_calls = 0
  /\ schema = NoSchema
  /\ pc = "open"

SequenceNumber ==
  \E r \in SeqReqs :
    /\ pc = "open"
    /\ \E res \in {ltdb_sequence_number(WithFault(tdb, r.flt), r)} :
         /\ tdb' = Store(res.s)
         /\ req' = res.req
         /\ ret' = res.ret
    /\ pc' = "returned"
    /\ UNCHANGED <<snap, in_transaction, handle, cb_calls, schema>>

NextSeq == SequenceNumber

SpecSeq == InitSeq /\ [][NextSeq]_vars

\* a sequence-number query has just returned
Queried == Returns /\ req'.op = "sequence_number"

\* the answer of the 'highest' query in this store
Highest(db) ==
  ltdb_sequence_number(WithFault(db, NoFault),
                       CHOOSE r \in SeqReqs : r.type = LDB_SEQ_HIGHEST_SEQ).req.seq_num

BaseinfoMissing(db) == ~db.rec[ltdb_key(LTDB_BASEINFO)].present

\* C21 as stated: a query never changes the store, in any state the 'next'
\* query returns the value of the 'highest' query plus one, and when @BASEINFO
\* is missing every query returns zero with success.
C21_Original ==
  [][Queried =>
       /\ tdb' = tdb
       /\ ret' = LDB_SUCCESS
       /\ req'.type = LDB_SEQ_NEXT => req'.seq_num = Highest(tdb) + 1
       /\ BaseinfoMissing(tdb) => req'.seq_num = 0]_vars

\* C21 amended: a query never changes the store and returns success; while
\* @BASEINFO is stored the 'next' query returns the value of the 'highest'
\* query plus one; when @BASEINFO is missing every query, 'next' included,
\* returns zero.
C21_SequenceQuery ==
  [][Queried =>
       /\ tdb' = tdb
       /\ ret' = LDB_SUCCESS
       /\ (req'.type = LDB_SEQ_NEXT /\ ~BaseinfoMissing(tdb)) =>
            req'.seq_num = Highest(tdb) + 1
       /\ BaseinfoMissing(tdb) => req'.seq_num = 0]_vars

\* the 'next' query of a store past its first mutations answered one more than
\* the stored number and left the number stored
C21_Witness ==
  /\ pc = "returned"
  /\ req.op = "sequence_number"
  /\ req.type = LDB_SEQ_NEXT
  /\ ~BaseinfoMissing(tdb)
  /\ tdb.seq >= 2
  /\ req.seq_num = tdb.seq + 1
  /\ tdb = snap[1]

-----------------------------------------------------------------------------
(* The schema registry: ldb->schema.attributes, an array of attribute entries,
   and ldb->schema.num_attributes, the number of its leading slots that are
   entries. The slots behind the entries keep whatever the last calls left in
   them. Allocations are taken to succeed. *)

LDB_ATTR_FLAG_ALLOCATED == "ALLOCATED"
LDB_ATTR_FLAG_FIXED == "FIXED"

LDB_SYNTAX_DN == "1.3.6.1.4.1.1466.115.121.1.12"
LDB_SYNTAX_DIRECTORY_STRING == "1.3.6.1.4.1.1466.115.121.1.15"
LDB_SYNTAX_OCTET_STRING == "1.3.6.1.4.1.1466.115.121.1.40"
LDB_SYNTAX_OBJECTCLASS == "LDB_SYNTAX_OBJECTCLASS"

\* a NULL syntax, a NULL name, the name of an entry whose name was freed, and
\* a slot that was allocated and never written
NoSyntax == "no syntax"
NoName == "no name"
FreedName == "freed"
Uninitialized == [name |-> "uninitialized", flags |-> {}, syntax |-> "uninitialized"]

Attribute(name, flags, syntax) == [name |-> name, flags |-> flags, syntax |-> syntax]

\* the syntax registered under a syntax name, NULL for an unknown name
ldb_standard_syntax_by_name(syntax) ==
  IF syntax \in {LDB_SYNTAX_DN, LDB_SYNTAX_DIRECTORY_STRING,
                 LDB_SYNTAX_OCTET_STRING, LDB_SYNTAX_OBJECTCLASS}
  THEN syntax ELSE NoSyntax

\* the value of an expression, computed once
The(S) == CHOOSE x \in S : TRUE

\* the array resized to n slots: the leading slots are kept
talloc_realloc(a, n) ==
  [k \in 1..n |-> IF k <= Len(a) THEN a[k] ELSE Uninitialized]

\* the loop over the entries: the slot at which it stops, the first whose
\* name is not below the new name, or the slot behind the entries; slot k of
\* the text is slot k - 1 of the array in the code
StopAt(a, num, attribute) ==
  CHOOSE k \in 1..(num + 1) :
    /\ \A m \in 1..(k - 1) : ldb_attr_cmp(attribute, a[m].name) > 0
    /\ k <= num => ldb_attr_cmp(attribute, a[k].name) <= 0

ldb_schema_attribute_add_with_syntax_Append(sc, attribute, flags, syntax) ==
  IF syntax = NoSyntax THEN [schema |-> sc, ret |-> LDB_ERR_OPERATIONS_ERROR]
  ELSE
    LET num == sc.num_attributes
        Placed(a) ==
          [schema |-> [attributes |-> SubSeq(a, 1, num) \o <<Attribute(attribute, flags, syntax)>>,
                       num_attributes |-> num + 1],
           ret |-> LDB_SUCCESS]
    IN The({Placed(a) : a \in {talloc_realloc(sc.attributes, num + 1)}})

ldb_schema_attribute_add_with_syntax_NoFixed(sc, attribute, flags, syntax) ==
  IF syntax = NoSyntax THEN [schema |-> sc, ret |-> LDB_ERR_OPERATIONS_ERROR]
  ELSE
    LET num == sc.num_attributes
        new == Attribute(attribute, flags, syntax)
        Placed(a, i) ==
          IF i <= num /\ ldb_attr_cmp(attribute, a[i].name) = 0
          THEN [schema |-> [attributes |-> [a EXCEPT ![i] = new], num_attributes |-> num],
                ret |-> LDB_SUCCESS]
          ELSE [schema |-> [attributes |-> SubSeq(a, 1, i - 1) \o <<new>> \o SubSeq(a, i, num),
                            num_attributes |-> num + 1],
                ret |-> LDB_SUCCESS]
    IN The(UNION {{Placed(a, i) : i \in {StopAt(a, num, attribute)}} :
                    a \in {talloc_realloc(sc.attributes, num + 1)}})

ldb_schema_attribute_add_with_syntax(sc, attribute, flags, syntax) ==
  IF syntax = NoSyntax THEN [schema |-> sc, ret |-> LDB_ERR_OPERATIONS_ERROR]
  ELSE
    LET num == sc.num_attributes
        new == Attribute(attribute, flags, syntax)
        Placed(a, i) ==
          IF i <= num /\ ldb_attr_cmp(attribute, a[i].name) = 0
          THEN IF LDB_ATTR_FLAG_FIXED \in a[i].flags
               THEN \* a fixed entry stays as it is
                    [schema |-> [attributes |-> a, num_attributes |-> num],
                     ret |-> LDB_SUCCESS]
               ELSE \* the entry is overwritten in its slot
                    [schema |-> [attributes |-> [a EXCEPT ![i] = new], num_attributes |-> num],
                     ret |-> LDB_SUCCESS]
          ELSE \* the entries from slot i on move up by one and the new entry
               \* takes slot i
               [schema |-> [attributes |-> SubSeq(a, 1, i - 1) \o <<new>> \o SubSeq(a, i, num),
                            num_attributes |-> num + 1],
                ret |-> LDB_SUCCESS]
    IN The(UNION {{Placed(a, i) : i \in {StopAt(a, num, attribute)}} :
                    a \in {talloc_realloc(sc.attributes, num + 1)}})

\* the fallback of a lookup: no name, no flags, octet string
ldb_attribute_default == Attribute(NoName, {}, LDB_SYNTAX_OCTET_STRING)

\* the binary search over the slots b..e (numbered as in the code, from 0);
\* reads collects the slots it looked at
RECURSIVE BinarySearch(_, _, _, _, _, _)
BinarySearch(a, name, b, e, def, reads) ==
  IF b > e THEN [found |-> def, reads |-> reads]
  ELSE The(
         {IF r = 0 THEN [found |-> [kind |-> "entry", i |-> i], reads |-> reads \cup {i}]
          ELSE IF r < 0 THEN BinarySearch(a, name, b, i - 1, def, reads \cup {i})
          ELSE BinarySearch(a, name, i + 1, e, def, reads \cup {i}) :
            i \in {(b + e) \div 2}, r \in {ldb_attr_cmp(name, a[((b + e) \div 2) + 1].name)}})

\* The result names the slot the returned pointer points to, or the default
\* entry. Slot 0 is read whatever num_attributes is: without an array the read
\* is through a NULL pointer; the name of a slot whose name was freed compares
\* equal to "*" or not (star).
ldb_schema_attribute_by_name(sc, name, star) ==
  LET a == sc.attributes
      NoDef == [kind |-> "default", i |-> 0]
  IN IF Len(a) = 0 THEN [found |-> [kind |-> "crash", i |-> 0], reads |-> {0}]
     ELSE LET wild == IF a[1].name = FreedName THEN star ELSE a[1].name = "*"
          IN BinarySearch(a, name, IF wild THEN 1 ELSE 0, sc.num_attributes - 1,
                          IF wild THEN [kind |-> "entry", i |-> 0] ELSE NoDef, {0})

\* the entry a lookup result points to
Pointee(sc, found) ==
  IF found.kind = "entry" THEN sc.attributes[found.i + 1] ELSE ldb_attribute_default

\* crash: the call does not return
ldb_schema_attribute_remove_Anyway(sc, name, star) ==
  LET Removed(f) ==
        IF f.kind = "crash" THEN [schema |-> sc, crash |-> TRUE]
        ELSE IF f.kind = "default" THEN [schema |-> sc, crash |-> FALSE]
        ELSE LET a == sc.attributes
                 num == sc.num_attributes
                 i == f.i + 1
                 freed == IF LDB_ATTR_FLAG_ALLOCATED \in a[i].flags
                          THEN [a EXCEPT ![i].name = FreedName] ELSE a
             IN IF num = 0 THEN [schema |-> sc, crash |-> TRUE]
                ELSE [schema |-> [attributes |->
                                    IF i < num
                                    THEN SubSeq(freed, 1, i - 1) \o SubSeq(freed, i + 1, num)
                                           \o SubSeq(freed, num, Len(freed))
                                    ELSE freed,
                                  num_attributes |-> num - 1],
                      crash |-> FALSE]
  IN The({Removed(f) : f \in {ldb_schema_attribute_by_name(sc, name, star).found}})

ldb_schema_attribute_remove(sc, name, star) ==
  LET Removed(f) ==
        IF f.kind = "crash" THEN [schema |-> sc, crash |-> TRUE]
        ELSE IF f.kind = "default" THEN [schema |-> sc, crash |-> FALSE]
        ELSE LET a == sc.attributes
                 num == sc.num_attributes
                 i == f.i + 1
                 freed == IF LDB_ATTR_FLAG_ALLOCATED \in a[i].flags
                          THEN [a EXCEPT ![i].name = FreedName] ELSE a
             IN IF LDB_ATTR_FLAG_FIXED \in a[i].flags
                THEN [schema |-> sc, crash |-> FALSE]
                ELSE IF num = 0
                THEN \* the slot is behind the entries: its name is freed a
                     \* second time, or num_attributes - 1 wraps and the
                     \* move runs over the end of the array
                     [schema |-> sc, crash |-> TRUE]
                ELSE [schema |-> [attributes |->
                                    IF i < num
                                    THEN SubSeq(freed, 1, i - 1) \o SubSeq(freed, i + 1, num)
                                           \o SubSeq(freed, num, Len(freed))
                                    ELSE freed,
                                  num_attributes |-> num - 1],
                      crash |-> FALSE]
  IN The({Removed(f) : f \in {ldb_schema_attribute_by_name(sc, name, star).found}})

ldb_schema_attribute_add(sc, attribute, flags, syntax) ==
  ldb_schema_attribute_add_with_syntax(sc, attribute, flags,
                                       ldb_standard_syntax_by_name(syntax))

wellknown ==
  << [attr |-> "dn", syntax |-> LDB_SYNTAX_DN],
     [attr |-> "distinguishedName", syntax |-> LDB_SYNTAX_DN],
     [attr |-> "cn", syntax |-> LDB_SYNTAX_DIRECTORY_STRING],
     [attr |-> "dc", syntax |-> LDB_SYNTAX_DIRECTORY_STRING],
     [attr |-> "ou", syntax |-> LDB_SYNTAX_DIRECTORY_STRING],
     [attr |-> "objectClass", syntax |-> LDB_SYNTAX_OBJECTCLASS] >>

\* the well-known attributes are added one after the other until one fails
RECURSIVE SetupFrom(_, _)
SetupFrom(sc, i) ==
  IF i > Len(wellknown) THEN [schema |-> sc, ret |-> LDB_SUCCESS]
  ELSE The({IF res.ret # LDB_SUCCESS THEN res ELSE SetupFrom(res.schema, i + 1) :
              res \in {ldb_schema_attribute_add(sc, wellknown[i].attr, {}, wellknown[i].syntax)}})

ldb_setup_wellknown_attributes(sc) == SetupFrom(sc, 1)


-----------------------------------------------------------------------------
(* The registry under its callers: attributes are registered, removed and
   looked up in any order, with no request in flight. *)

SchemaNames == {"*", "cn", "CN", "member"}
\* desc is never registered
LookupNames == SchemaNames \cup {"desc"}
SchemaFlags == {{}, {LDB_ATTR_FLAG_FIXED}, {LDB_ATTR_FLAG_ALLOCATED}}
SyntaxNames == {LDB_SYNTAX_DIRECTORY_STRING, "no-such-syntax"}

SchemaReq(op, name, flags, syntax, found, reads) ==
  [op |-> op, name |-> name, flags |-> flags, syntax |-> syntax,
   found |-> found, reads |-> reads]

\* Of the slots behind the entries only slot 0 is ever read again (by a
\* lookup in a registry without entries), so the others are not kept.
Readable(sc) ==
  [sc EXCEPT !.attributes =
     SubSeq(@, 1, IF sc.num_attributes = 0 /\ Len(@) > 0 THEN 1 ELSE sc.num_attributes)]

SchemaReturn(r, sc, rt, crash) ==
  /\ req' = r
  /\ ret' = rt
  /\ schema' = Readable(sc)
  /\ pc' = IF crash THEN "crashed" ELSE "idle"
  /\ UNCHANGED <<tdb, snap, in_transaction, handle, cb_calls>>

AttributeAdd ==
  \E name \in SchemaNames, flags \in SchemaFlags, syntax \in SyntaxNames :
    /\ pc = "idle"
    /\ \E res \in {ldb_schema_attribute_add(schema, name, flags, syntax)} :
         SchemaReturn(SchemaReq("add", name, flags, ldb_standard_syntax_by_name(syntax),
                                ldb_attribute_default, {}),
                      res.schema, res.ret, FALSE)

\* what the comparison of a freed name with "*" can give
Stars(sc) ==
  IF Len(sc.attributes) > 0 /\ sc.attributes[1].name = FreedName THEN BOOLEAN ELSE {FALSE}

AttributeRemove ==
  \E name \in LookupNames, star \in Stars(schema) :
    /\ pc = "idle"
    /\ \E res \in {ldb_schema_attribute_remove(schema, name, star)} :
         SchemaReturn(SchemaReq("remove", name, {}, NoSyntax, ldb_attribute_default, {}),
                      res.schema, LDB_SUCCESS, res.crash)

AttributeByName ==
  \E name \in LookupNames, star \in Stars(schema) :
    /\ pc = "idle"
    /\ \E res \in {ldb_schema_attribute_by_name(schema, name, star)} :
         SchemaReturn(SchemaReq("by_name", name, {}, NoSyntax,
                                Pointee(schema, res.found), res.reads),
                      schema, LDB_SUCCESS, res.found.kind = "crash")

SetupWellknown ==
  /\ pc = "idle"
  /\ \E res \in {ldb_setup_wellknown_attributes(schema)} :
       SchemaReturn(SchemaReq("setup_wellknown", "", {}, NoSyntax, ldb_attribute_default, {}),
                    res.schema, res.ret, FALSE)

NextSchema ==
  \/ AttributeAdd
  \/ AttributeRemove
  \/ AttributeByName
  \/ SetupWellknown

SpecSchema == Init /\ [][NextSchema]_vars

-----------------------------------------------------------------------------
\* the entries of the registry, in the order of the array
Entries(sc) == SubSeq(sc.attributes, 1, sc.num_attributes)

\* C22: after any sequence of add, remove and setup-wellknown calls the
\* entries are in ascending order of their names compared ignoring case, an
\* entry named "*" is the first one, and no two entries have names that are
\* equal ignoring case.
C22_SortedRegistry ==
  LET e == Entries(schema)
  IN /\ \A i, j \in 1..Len(e) : i < j => ldb_attr_cmp(e[i].name, e[j].name) <= 0
     /\ \A i \in 1..Len(e) : e[i].name = "*" => i = 1
     /\ \A i, j \in 1..Len(e) : i # j => ldb_attr_cmp(e[i].name, e[j].name) # 0

\* the seeded registry with a wildcard and CN registered over cn, after member
\* was added and removed again
C22_Witness ==
  /\ pc = "idle"
  /\ req.op = "remove"
  /\ req.name = "member"
  /\ schema.num_attributes = 7
  /\ [i \in 1..7 |-> schema.attributes[i].name]
       = <<"*", "CN", "dc", "distinguishedName", "dn", "objectClass", "ou">>

\* a registry call of the kind op has just returned
Called(op) == pc = "idle" /\ pc' = "idle" /\ req'.op = op

\* the slots of the entries whose name equals name ignoring case
Registered(e, name) == {i \in 1..Len(e) : ldb_attr_cmp(e[i].name, name) = 0}

\* C23: add(name, flags, syntax) with a missing syntax fails with
\* operations-error and leaves the registry unchanged; otherwise it returns
\* success and: if no entry has the name ignoring case, the registry gains
\* exactly one entry, with the given name, flags and syntax; if a fixed entry
\* has the name, the registry is unchanged; if a non-fixed entry has the name,
\* that entry is replaced in its slot and the number of entries is unchanged.
C23_Add ==
  [][Called("add") =>
       LET e == Entries(schema)
           e2 == Entries(schema')
           hits == Registered(e, req'.name)
           new == Attribute(req'.name, req'.flags, req'.syntax)
       IN IF req'.syntax = NoSyntax
          THEN ret' = LDB_ERR_OPERATIONS_ERROR /\ e2 = e
          ELSE /\ ret' = LDB_SUCCESS
               /\ IF hits = {}
                  THEN /\ Len(e2) = Len(e) + 1
                       /\ \E k \in 1..Len(e2) : e2[k] = new /\ RemoveAt(e2, k) = e
                  ELSE IF \E i \in hits : LDB_ATTR_FLAG_FIXED \in e[i].flags
                  THEN e2 = e
                  ELSE \E i \in hits : e2 = [e EXCEPT ![i] = new]]_vars

\* CN was added over the fixed entry cn, which is still there
C23_Witness ==
  /\ pc = "idle"
  /\ req.op = "add"
  /\ req.name = "CN"
  /\ req.flags = {LDB_ATTR_FLAG_ALLOCATED}
  /\ req.syntax # NoSyntax
  /\ ret = LDB_SUCCESS
  /\ \E i \in 1..schema.num_attributes :
       schema.attributes[i] = Attribute("cn", {LDB_ATTR_FLAG_FIXED}, LDB_SYNTAX_DIRECTORY_STRING)

\* what a lookup is to return: the entry of that name, else the entry named
\* "*", else the default entry
Expected(e, name) ==
  IF Registered(e, name) # {} THEN e[CHOOSE i \in Registered(e, name) : TRUE]
  ELSE IF \E i \in 1..Len(e) : e[i].name = "*" THEN e[CHOOSE i \in 1..Len(e) : e[i].name = "*"]
  ELSE ldb_attribute_default

\* a lookup is made
LookingUp == pc = "idle" /\ req'.op = "by_name" /\ pc' # "open"

\* C24: in every registry add and remove lead to, the one without entries
\* included, lookup(name) returns the entry whose name equals name ignoring
\* case, else the entry named "*", else the default entry, and it reads no slot
\* of the array but those of the entries.
C24_Lookup ==
  [][LookingUp =>
       /\ pc' = "idle"
       /\ req'.reads \subseteq 0..(schema.num_attributes - 1)
       /\ req'.found = Expected(Entries(schema), req'.name)]_vars

\* "*" was registered and removed, the registry has no entries, and the lookup
\* of cn returned the removed entry
C24_FailingInput ==
  /\ pc = "idle"
  /\ req.op = "by_name"
  /\ req.name = "cn"
  /\ schema.num_attributes = 0
  /\ req.reads = {0}
  /\ req.found.name = "*"

\* remove is called
RemoveCalled == pc = "idle" /\ req'.op = "remove" /\ pc' # "open"

\* C25: remove(name) leaves the registry unchanged when the entry of that name
\* is fixed; when it is not fixed, exactly that entry goes: the number of
\* entries decreases by one and the other entries keep their order.
C25_Remove ==
  [][(RemoveCalled /\ Registered(Entries(schema), req'.name) # {}) =>
       LET e == Entries(schema)
           hits == Registered(e, req'.name)
       IN /\ pc' = "idle"
          /\ IF \E i \in hits : LDB_ATTR_FLAG_FIXED \in e[i].flags
             THEN Entries(schema') = e
             ELSE /\ schema'.num_attributes = schema.num_attributes - 1
                  /\ \E i \in hits : Entries(schema') = RemoveAt(e, i)]_vars

\* CN was removed from the seeded registry: the other five well-known
\* attributes are left, in their order
C25_Witness ==
  /\ pc = "idle"
  /\ req.op = "remove"
  /\ req.name = "CN"
  /\ schema.num_attributes = 5
  /\ [i \in 1..5 |-> schema.attributes[i].name]
       = <<"dc", "distinguishedName", "dn", "objectClass", "ou">>

\* C26: remove(name) for a name without an entry leaves the registry
\* unchanged: neither the entry named "*" nor any other entry goes.
C26_RemoveUnregistered ==
  [][(RemoveCalled /\ Registered(Entries(schema), req'.name) = {}) =>
       /\ pc' = "idle"
       /\ Entries(schema') = Entries(schema)]_vars

\* desc, never registered, was removed from the seeded registry to which "*"
\* had been added: the entry "*" is gone
C26_FailingInput ==
  /\ pc = "idle"
  /\ req.op = "remove"
  /\ req.name = "desc"
  /\ schema.num_attributes = 6
  /\ [i \in 1..6 |-> schema.attributes[i].name]
       = <<"cn", "dc", "distinguishedName", "dn", "objectClass", "ou">>

\* C27: a modify of two elements that fails leaves every index record as it
\* was before the modify, whatever its first operation had already applied.
C27_FailedModifyIndex ==
  [][(PairReturns /\ ~Reported') => tdb'.idx = tdb.idx]_vars

\* the entry holds member: [bob, carol]; DELETE member: [bob] followed by
\* ADD member: [carol] is rejected, the record of the entry is as before and
\* the index record of (member, bob) no longer lists the entry
C27_FailingInput ==
  /\ pc = "returned"
  /\ req.op = "modify"
  /\ req.els = <<ModEl(LDB_FLAG_MOD_DELETE, "member", <<"bob">>),
                 ModEl(LDB_FLAG_MOD_ADD, "member", <<"carol">>)>>
  /\ ErrorOf(ret, handle) = LDB_ERR_ATTRIBUTE_OR_VALUE_EXISTS
  /\ snap[1].rec[ltdb_key(EntryDN)].els = <<El("member", <<"bob", "carol">>)>>
  /\ tdb.rec = snap[1].rec
  /\ tdb.seq = snap[1].seq
  /\ tdb.idx # snap[1].idx

====
